---- MODULE Spec2Model ----
(***************************************************************************)
(* Inventory synchronisation between a stock feed and the Holded catalog:  *)
(* the Conway category listing, the variant SKU index, the feed files, the *)
(* three reconciliation scenarios and the delta-based stock mutation.      *)
(*                                                                         *)
(* Python values are encoded as follows.  An optional value (None or a     *)
(* missing key) is the empty sequence and a present value v is <<v>>.  A   *)
(* dict is the sequence of its [k, v] items in insertion order.  A missing *)
(* or empty string is "".                                                  *)
(***************************************************************************)
EXTENDS Integers, Sequences, FiniteSets, TLC

\* Largest stock value the catalog or the feed reports.
MaxStock == 1

\* Number of successive runs of the reconciliation on the same feed.
MaxRuns == 2

\* Largest number of full pages the category listing has before its last page.
MaxFullPages == 1

\* per_page of the category listing.
PerPage == 100

\* config.holded_warehouse_id, the key of the stock payload.
WarehouseId == "W1"

None == <<>>

Some(v) == <<v>>

----------------------------------------------------------------------------
(* dict *)

Keys(d) == {d[i].k : i \in DOMAIN d}

Has(d, key) == \E i \in DOMAIN d : d[i].k = key

Get(d, key) == d[CHOOSE i \in DOMAIN d : d[i].k = key].v

\* d[key] = val: an existing key keeps its position, a new one goes last.
Put(d, key, val) ==
    IF Has(d, key)
    THEN [i \in DOMAIN d |-> IF d[i].k = key THEN [k |-> key, v |-> val] ELSE d[i]]
    ELSE Append(d, [k |-> key, v |-> val])

RECURSIVE PutAll(_, _)
\* d.update(e)
PutAll(d, e) ==
    IF e = <<>> THEN d
    ELSE PutAll(Put(d, Head(e).k, Head(e).v), Tail(e))

----------------------------------------------------------------------------
(* The catalog service: products with nested variants. *)

CatalogStocks == {None} \cup {Some(n) : n \in -1..MaxStock}

NoVariant == [id |-> "", sku |-> "", stock |-> None, categoryFields |-> "list"]

\* How the SKUs of product P1 and of its two variants may be laid out: all
\* distinct, the product's SKU equal to a variant's, a variant without SKU,
\* two variants with one SKU.
SkuLayouts ==
    { [main |-> "", v1 |-> "A", v2 |-> "B"], [main |-> "A", v1 |-> "A", v2 |-> "B"],
      [main |-> "A", v1 |-> "", v2 |-> "B"], [main |-> "", v1 |-> "A", v2 |-> "A"] }

\* Every product the category really holds.  P1 has two variants; P2 has a
\* product-level SKU and no variants.
Catalogs ==
    { << [id |-> "P1", sku |-> l.main, name |-> "Bike", stock |-> ps, conway |-> TRUE,
          variants |-> << [id |-> "V1", sku |-> l.v1, stock |-> st1,
                            categoryFields |-> "list"],
                          [id |-> "V2", sku |-> l.v2, stock |-> st2,
                            categoryFields |-> "list"] >>],
         [id |-> "P2", sku |-> "C", name |-> "Solo", stock |-> Some(1), conway |-> TRUE,
          variants |-> << >>] >> :
        l \in SkuLayouts, ps \in {None, Some(1)},
        st1 \in CatalogStocks, st2 \in CatalogStocks }

\* A product of another category that the listing returns although the request
\* filters by categoryId; it pads a page to PerPage items.
Filler == [id |-> "X", sku |-> "X", name |-> "Other", stock |-> None, conway |-> FALSE,
           variants |-> << >>]

\* The page the service answers for GET /products?page=p: with n full pages,
\* page p <= n holds the p-th product and fillers up to PerPage items, page
\* n + 1 holds the rest (a short page), and every later page is empty.
ListPage(products, n, p) ==
    IF p <= n
    THEN [i \in 1..PerPage |-> IF i = 1 /\ p <= Len(products) THEN products[p] ELSE Filler]
    ELSE IF p = n + 1 /\ n < Len(products)
         THEN SubSeq(products, n + 1, Len(products))
         ELSE << >>

----------------------------------------------------------------------------
(* HoldedAPI: the variant SKU index. *)

\* The filter of the listing keeps no product.
_is_conway_product_never(product) == FALSE

_is_conway_product(product) == product.conway

RECURSIVE VariantEntries(_, _, _)
\* The inner loop of get_conway_variant_skus over product['variants'].
VariantEntries(index, product, variants) ==
    IF variants = << >> THEN index
    ELSE LET variant == Head(variants)
             variant_sku == variant.sku
             entry == [id |-> product.id, sku |-> product.sku, name |-> product.name,
                       stock |-> IF variant.stock # None THEN variant.stock
                                 ELSE product.stock,
                       is_variant |-> TRUE,
                       variant_id |-> variant.id,
                       variant_data |-> variant,
                       main_product_id |-> product.id,
                       variant_sku |-> variant_sku,
                       is_conway |-> TRUE]
         IN  VariantEntries(IF variant_sku # "" THEN Put(index, variant_sku, entry)
                            ELSE index,
                            product, Tail(variants))

RECURSIVE IndexProducts(_, _)
\* The outer loop of get_conway_variant_skus: the main SKU is read and skipped.
IndexProducts(index, products) ==
    IF products = << >> THEN index
    ELSE IndexProducts(VariantEntries(index, Head(products), Head(products).variants),
                       Tail(products))

(* InventoryUpdater._create_sku_lookup: the lookup with main products. *)

RECURSIVE LookupVariants(_, _, _)
\* The loop of _create_sku_lookup over product['variants'].
LookupVariants(lookup, product, variants) ==
    IF variants = << >> THEN lookup
    ELSE LET variant == Head(variants)
             variant_sku == variant.sku
             variant_product_data ==
                 [id |-> product.id, sku |-> product.sku, name |-> product.name,
                  stock |-> IF variant.stock # None THEN variant.stock
                            ELSE product.stock,
                  is_variant |-> TRUE,
                  variant_id |-> variant.id,
                  variant_data |-> variant,
                  main_product_id |-> product.id,
                  variant_sku |-> variant_sku,
                  is_conway |-> FALSE]
         IN  LookupVariants(IF variant_sku # ""
                            THEN Put(lookup, variant_sku, variant_product_data)
                            ELSE lookup,
                            product, Tail(variants))

\* The entry _create_sku_lookup makes for the SKU of the product itself.
MainEntry(product) ==
    [id |-> product.id, sku |-> product.sku, name |-> product.name,
     stock |-> product.stock,
     is_variant |-> FALSE,
     variant_id |-> "",
     variant_data |-> NoVariant,
     main_product_id |-> "",
     variant_sku |-> "",
     is_conway |-> FALSE]

RECURSIVE _create_sku_lookup(_, _)
_create_sku_lookup(lookup, holded_products) ==
    IF holded_products = << >> THEN lookup
    ELSE LET product == Head(holded_products)
             main_sku == product.sku
             with_main == IF main_sku # "" THEN Put(lookup, main_sku, MainEntry(product))
                          ELSE lookup
         IN  _create_sku_lookup(LookupVariants(with_main, product, product.variants),
                                Tail(holded_products))

\* The index as the lookup builds it, main product SKUs included.
get_conway_variant_skus_with_main(ok, conway_products) ==
    IF ~ok \/ conway_products = << >> THEN << >>
    ELSE _create_sku_lookup(<< >>, conway_products)

\* conway_products is None (<<>> with ok = FALSE) or the list of the listing.
get_conway_variant_skus(ok, conway_products) ==
    IF ~ok \/ conway_products = << >> THEN << >>
    ELSE IndexProducts(<< >>, conway_products)

----------------------------------------------------------------------------
(* RobustInventoryUpdater: current stock and the mutation executor. *)

_get_current_stock(holded_product) ==
    IF holded_product.is_variant /\ holded_product.variant_data.stock # None
    THEN holded_product.variant_data.stock
    ELSE holded_product.stock

NoRequest == [product_id |-> "", warehouse |-> "", key |-> "", delta |-> 0]

\* update_product_stock sending the target stock instead of the difference.
update_product_stock_absolute(product_id, new_stock, current_stock, variant_id, resp) ==
    LET stock_difference == new_stock
    IN  IF stock_difference = 0
        THEN [called |-> FALSE, request |-> NoRequest, success |-> TRUE]
        ELSE [called |-> TRUE,
              request |-> [product_id |-> product_id,
                           warehouse |-> WarehouseId,
                           key |-> IF variant_id # "" THEN variant_id ELSE product_id,
                           delta |-> stock_difference],
              success |-> (resp = "ok")]

\* HoldedAPI.update_product_stock: the request it sends, if any, and its
\* return value when the service answers resp.
update_product_stock(product_id, new_stock, current_stock, variant_id, resp) ==
    LET stock_difference == new_stock - current_stock
    IN  IF stock_difference = 0
        THEN [called |-> FALSE, request |-> NoRequest, success |-> TRUE]
        ELSE [called |-> TRUE,
              request |-> [product_id |-> product_id,
                           warehouse |-> WarehouseId,
                           key |-> IF variant_id # "" THEN variant_id ELSE product_id,
                           delta |-> stock_difference],
              success |-> (resp = "ok")]

\* _update_product_stock without its guards: a main product record is sent
\* in the main product format of update_product_stock.
_update_product_stock_unguarded(holded_product, new_stock, current_stock, resp) ==
    update_product_stock(holded_product.id, new_stock, current_stock,
                         holded_product.variant_id, resp)

_update_product_stock(holded_product, new_stock, current_stock, resp) ==
    IF ~holded_product.is_variant
    THEN [called |-> FALSE, request |-> NoRequest, success |-> FALSE]
    ELSE IF holded_product.main_product_id = "" \/ holded_product.variant_id = ""
    THEN [called |-> FALSE, request |-> NoRequest, success |-> FALSE]
    ELSE update_product_stock(holded_product.main_product_id, new_stock,
                              current_stock, holded_product.variant_id, resp)

----------------------------------------------------------------------------
(* InventoryUpdater: the executor of the lookup with main products. *)

\* InventoryUpdater._update_stock_if_different: the request it sends, if any,
\* its return value and the branch that decided it.
_update_stock_if_different(holded_product, new_stock, resp) ==
    LET is_variant == holded_product.is_variant
        current_stock ==
            IF is_variant /\ holded_product.variant_data.stock # None
            THEN holded_product.variant_data.stock
            ELSE holded_product.stock
        refused(why) == [called |-> FALSE, request |-> NoRequest, success |-> FALSE,
                         why |-> why]
    IN  IF current_stock = None THEN refused("no_current_stock")
        ELSE IF current_stock[1] = new_stock THEN refused("equal")
        ELSE IF is_variant
        THEN IF holded_product.main_product_id = "" \/ holded_product.variant_id = ""
             THEN refused("missing_ids")
             ELSE LET call == update_product_stock(holded_product.main_product_id,
                                                   new_stock, current_stock[1],
                                                   holded_product.variant_id, resp)
                  IN  [called |-> call.called, request |-> call.request,
                       success |-> call.success,
                       why |-> IF call.success THEN "mutated" ELSE "failed"]
        ELSE refused("main_product")

\* The answers of the service to PUT /products/{id}/stock.
Responses == {"ok", "http_error", "exception"}

\* The counter the service keeps for a variant is the one it reports: the
\* variant's own stock, or the product's when the variant has none.
ServiceStock(product, variant) ==
    IF variant.stock # None THEN variant.stock[1]
    ELSE IF product.stock # None THEN product.stock[1] ELSE 0

\* The service applies an accepted request: it adds the delta to the counter
\* of the variant request.key of product request.product_id.
ApplyStock(products, request) ==
    [i \in DOMAIN products |->
        IF products[i].id # request.product_id THEN products[i]
        ELSE [products[i] EXCEPT !.variants =
                [j \in DOMAIN products[i].variants |->
                    LET variant == products[i].variants[j]
                    IN  IF variant.id # request.key THEN variant
                        ELSE [variant EXCEPT !.stock =
                                Some(ServiceStock(products[i], variant) + request.delta)]]]]

----------------------------------------------------------------------------
(* FileProcessor: the products of a feed file. *)

\* A row as _extract_product_data leaves it: SKU, optional integer stock,
\* whether a price was parsed, and the name ("" when the file has none).
\* <<>> is no row for the SKU.
Row(sku, stock, price) ==
    <<[sku |-> sku, stock |-> stock, price |-> price, name |-> ""]>>

\* A row with a stock and a name.
NamedRow(sku, stock, name) ==
    <<[sku |-> sku, stock |-> Some(stock), price |-> FALSE, name |-> name]>>

StockRows(sku, stocks) == {Row(sku, Some(n), FALSE) : n \in stocks}

Files(rowsA, rowsB, rowsC) ==
    { [bad |-> FALSE, rows |-> ra \o rb \o rc] :
        ra \in rowsA, rb \in rowsB, rc \in rowsC }

\* A has a stock, a price but no stock, or no row; B has a stock, a negative
\* stock with a price, or no row; C has a stock or a negative stock and no
\* price.
GoodFiles ==
    Files({<< >>, Row("A", None, TRUE)} \cup StockRows("A", 0..MaxStock),
          {<< >>, Row("B", Some(-1), TRUE)} \cup StockRows("B", 0..MaxStock),
          {Row("C", Some(1), FALSE), Row("C", Some(-1), FALSE)})

\* A file that is missing, unreadable or has an unsupported extension.
BadFile == [bad |-> TRUE, rows |-> << >>]

\* The lists of files of a run: one file, no readable file, a readable file
\* after an unreadable one, two files that report the same SKU.
FileLists ==
    {<<f>> : f \in GoodFiles}
        \cup {<<BadFile>>, <<BadFile, BadFile>>}
        \cup {<<BadFile, f>> : f \in Files({<< >>} \cup StockRows("A", {0}),
                                            StockRows("B", {1}),
                                            {Row("C", Some(1), FALSE)})}
        \cup {<<f, g>> : f \in Files(StockRows("A", {1}), {<< >>}, {<< >>}),
                         g \in Files(StockRows("A", {0}), {<< >>} \cup StockRows("B", {1}),
                                     {<< >>})}

RECURSIVE validate_products(_)
validate_products(products) ==
    IF products = << >> THEN << >>
    ELSE LET product == Head(products)
             stock == IF product.stock # None /\ product.stock[1] < 0 THEN None
                      ELSE product.stock
             rest == validate_products(Tail(products))
         IN  IF product.sku = "" THEN rest
             ELSE IF product.price \/ stock # None
                  THEN <<[product EXCEPT !.stock = stock]>> \o rest
                  ELSE rest

\* process_inventory_file: ok = FALSE is the None it returns for a file that
\* cannot be read or has no products.
process_inventory_file(file) ==
    IF file.bad \/ file.rows = << >> THEN [ok |-> FALSE, products |-> << >>]
    ELSE [ok |-> TRUE, products |-> validate_products(file.rows)]

RECURSIVE SkuDict(_, _)
SkuDict(d, products) ==
    IF products = << >> THEN d
    ELSE SkuDict(Put(d, Head(products).sku, Head(products)), Tail(products))

_process_stock_file(file) ==
    LET file_products == process_inventory_file(file)
    IN  IF ~file_products.ok \/ file_products.products = << >> THEN << >>
        ELSE SkuDict(<< >>, file_products.products)

\* The stock of every feed record read as 0.
FeedStockZero(file_product) == 0

\* int(file_product.get('stock', 0))
FeedStock(file_product) ==
    IF file_product.stock # None THEN file_product.stock[1] ELSE 0

----------------------------------------------------------------------------
(* Product names: str.strip() and str.lower(). *)

\* The characters of the names that occur in the catalog and in the feed.
Chars(name) ==
    CASE name = "Bike" -> <<"B", "i", "k", "e">>
      [] name = "bike " -> <<"b", "i", "k", "e", " ">>
      [] name = "Solo" -> <<"S", "o", "l", "o">>
      [] name = "New" -> <<"N", "e", "w">>
      [] name = "Other" -> <<"O", "t", "h", "e", "r">>
      [] OTHER -> << >>

RECURSIVE lstrip(_)
lstrip(chars) ==
    IF chars # << >> /\ Head(chars) = " " THEN lstrip(Tail(chars)) ELSE chars

RECURSIVE rstrip(_)
rstrip(chars) ==
    IF chars # << >> /\ chars[Len(chars)] = " "
    THEN rstrip(SubSeq(chars, 1, Len(chars) - 1))
    ELSE chars

strip(chars) == rstrip(lstrip(chars))

lower(chars) ==
    [i \in DOMAIN chars |->
        CASE chars[i] = "B" -> "b"
          [] chars[i] = "S" -> "s"
          [] chars[i] = "N" -> "n"
          [] chars[i] = "O" -> "o"
          [] OTHER -> chars[i]]

\* name.strip().lower()
NormalizedName(name) == lower(strip(Chars(name)))

----------------------------------------------------------------------------
(* FileProcessor._extract_product_data: the stock cell of a row. *)

\* A cell that pandas reads as NaN.
NaN == <<"NaN">>

\* The stock cells of a file, as the characters of str(cell): the sentinel
\* with and without blanks and with another number, integers, a negative
\* integer, decimals, text, the words that stand for no value in either
\* case, the empty string, and a cell without value.
StockCells ==
    { <<">", "1", "0">>, <<" ", ">", "1", "0", " ">>, <<">", "5">>,
      <<"1", "0">>, <<"0">>, <<"7">>, <<"-", "1">>, <<"3", ".", "7">>,
      <<"-", "0", ".", "5">>, <<"a">>, <<"n", "a", "n">>, <<"N", "o", "n", "e">>,
      << >>, NaN }

Digits == {"0", "1", "2", "3", "4", "5", "6", "7", "8", "9"}

DigitValue(c) ==
    CASE c = "0" -> 0 [] c = "1" -> 1 [] c = "2" -> 2 [] c = "3" -> 3
      [] c = "4" -> 4 [] c = "5" -> 5 [] c = "6" -> 6 [] c = "7" -> 7
      [] c = "8" -> 8 [] OTHER -> 9

RECURSIVE Number(_)
\* The value of a string of digits.
Number(chars) ==
    IF chars = << >> THEN 0
    ELSE 10 * Number(SubSeq(chars, 1, Len(chars) - 1)) + DigitValue(chars[Len(chars)])

\* A number without its sign.
Unsigned(chars) ==
    IF chars # << >> /\ Head(chars) \in {"+", "-"} THEN Tail(chars) ELSE chars

\* The digits before the decimal point.
Whole(chars) ==
    LET unsigned == Unsigned(chars)
        points == {i \in DOMAIN unsigned : unsigned[i] = "."}
    IN  IF points = {} THEN unsigned
        ELSE SubSeq(unsigned, 1, (CHOOSE i \in points : TRUE) - 1)

\* float(stock_str) does not raise ValueError: a sign, digits and at most
\* one decimal point.
IsFloat(chars) ==
    LET unsigned == Unsigned(chars)
        points == {i \in DOMAIN unsigned : unsigned[i] = "."}
    IN  /\ Cardinality(points) <= 1
        /\ \A i \in DOMAIN unsigned : i \notin points => unsigned[i] \in Digits
        /\ \E i \in DOMAIN unsigned : unsigned[i] \in Digits

\* int(float(stock_str)): the decimals are cut off.
IntOfFloat(chars) ==
    IF chars # << >> /\ Head(chars) = "-" THEN 0 - Number(Whole(chars))
    ELSE Number(Whole(chars))

\* No cell is taken for the sentinel.
SentinelAppliesNever(stock_str) == FALSE

\* if stock_str.startswith('>')
SentinelApplies(stock_str) == stock_str # << >> /\ Head(stock_str) = ">"

\* stock_str.lower() in ['nan', 'none', '']
NoValueWord(stock_str) ==
    lower(stock_str) \in {<<"n", "a", "n">>, <<"n", "o", "n", "e">>, << >>}

\* The stock part of the loop body for a cell: continue is the continue
\* that skips the row, stock the value of product['stock'] if the key is set.
ExtractStock(cell) ==
    IF cell = NaN THEN [continue |-> FALSE, stock |-> None]
    ELSE LET stock_str == strip(cell)
         IN  IF SentinelApplies(stock_str) THEN [continue |-> FALSE, stock |-> Some(10)]
             ELSE IF NoValueWord(stock_str) THEN [continue |-> TRUE, stock |-> None]
             ELSE IF IsFloat(stock_str)
                  THEN [continue |-> FALSE, stock |-> Some(IntOfFloat(stock_str))]
                  ELSE [continue |-> FALSE, stock |-> None]

\* product['model_year'] = model_year is reached before product is assigned
\* in the iteration: it raises while no earlier row has assigned product,
\* and the handler of the loop skips the row.
YearRaises(row, bound) == row.year /\ ~bound

RECURSIVE ExtractRows(_, _)
\* The loop over the rows, bound telling whether an earlier iteration has
\* assigned product: a row is skipped by the exception or by continue, or
\* gives a product when it has a price or a stock.
ExtractRows(rows, bound) ==
    IF rows = << >> THEN << >>
    ELSE LET row == Head(rows)
             extracted == ExtractStock(row.stock)
         IN  IF YearRaises(row, bound) THEN ExtractRows(Tail(rows), bound)
             ELSE IF extracted.continue THEN ExtractRows(Tail(rows), TRUE)
             ELSE IF row.price \/ extracted.stock # None
                  THEN Row(row.sku, extracted.stock, row.price)
                           \o ExtractRows(Tail(rows), TRUE)
                  ELSE ExtractRows(Tail(rows), TRUE)

_extract_product_data(rows) == ExtractRows(rows, FALSE)

----------------------------------------------------------------------------
(* HoldedAPI: the variants of a product name, and the deletion. *)

RECURSIVE Values(_)
\* list(d.values())
Values(d) == IF d = << >> THEN << >> ELSE <<Head(d).v>> \o Values(Tail(d))

\* get_all_variants_by_product_name: it lists the category again (fetched =
\* FALSE when that listing fails), builds a new index and keeps the entries
\* whose name equals product_name after strip and lower.
get_all_variants_by_product_name(product_name, fetched, products) ==
    LET conway_skus_now == get_conway_variant_skus(fetched,
                               SelectSeq(products, _is_conway_product))
        normalized_search_name == NormalizedName(product_name)
    IN  Values(SelectSeq(conway_skus_now,
                         LAMBDA item : NormalizedName(item.v.name) = normalized_search_name))

\* The answers to DELETE /products/{id}: the service serves the request, or
\* refuses it (authentication, server error), or the transport raises.
DeleteAnswers == {"served", "http_error", "exception"}

\* The status of a DELETE the service answers: 200 for a product it holds,
\* 404 for one it does not hold, 500 when it refuses.
DeleteStatus(products, product_id, answer) ==
    IF answer = "served"
    THEN IF \E i \in DOMAIN products : products[i].id = product_id THEN 200 ELSE 404
    ELSE 500

\* delete_product_with_variants: its return value for the status of the
\* answer, or when the request raised.
delete_product_with_variants(status, raised) ==
    ~raised /\ status \in {200, 204}

\* The catalog after the service has served DELETE /products/{id}.
RemoveProduct(products, product_id) ==
    SelectSeq(products, LAMBDA product : product.id # product_id)

----------------------------------------------------------------------------
(* NewProductsProcessor: candidates and consolidation. *)

\* p.get('is_new_variant', False)
IsNewVariant(p) == p.is_new_variant = Some(TRUE)

\* process_new_products: completely_new_products
CompletelyNew(data) == SelectSeq(data, LAMBDA p : ~IsNewVariant(p))

\* process_new_products: new_variants
NewVariants(data) == SelectSeq(data, IsNewVariant)

\* existing_as_new_format: an existing variant as a record of the import.
existing_as_new_format(existing_variant, product_name) ==
    [sku |-> existing_variant.variant_sku, stock |-> existing_variant.stock,
     name |-> product_name, is_new_variant |-> Some(FALSE), from_holded |-> TRUE]

\* The loop over categoryFields raises for a variant whose categoryFields is
\* not a list.
Malformed(existing_variant) == existing_variant.variant_data.categoryFields # "list"

RECURSIVE ConvertExisting(_, _)
\* The loop that converts existing_variants: the records appended before the
\* loop ends or raises.
ConvertExisting(existing_variants, product_name) ==
    IF existing_variants = << >> \/ Malformed(Head(existing_variants)) THEN << >>
    ELSE <<existing_as_new_format(Head(existing_variants), product_name)>>
             \o ConvertExisting(Tail(existing_variants), product_name)

\* The entry scheduled for existing_variants, if the first has a parent id.
DeletionEntries(existing_variants, product_name) ==
    IF existing_variants # << >> /\ existing_variants[1].main_product_id # ""
    THEN <<[product_id |-> existing_variants[1].main_product_id,
            product_name |-> product_name,
            existing_variants_count |-> Len(existing_variants)]>>
    ELSE << >>

\* if product_name in processed_products
AlreadyProcessed(product_name, processed) == product_name \in processed

----------------------------------------------------------------------------
(* State *)

VARIABLES
    holded,             \* the products of the category in the catalog service
    fullPages,          \* how many full pages the listing has
    file_paths,         \* the files handed to the run
    run,                \* number of the current run
    pc,                 \* position of the run
    page,               \* get_conway_category_products: page
    all_products,       \* get_conway_category_products: all_products
    conway_products,    \* its return value: [ok, products], ok = FALSE for None
    conway_skus,        \* the index of the run
    file_skus,          \* the feed map of the run
    cursor,             \* position of the current loop
    scenario_results,   \* _apply_filtering_scenarios: scenario_results
    results,            \* process_robust_inventory_update: results
    stock_updates,      \* self.stock_updates
    stock_resets,       \* self.stock_resets
    puts,               \* every PUT /products/{id}/stock sent, with its answer
    outcomes,           \* every branch a loop took for a SKU
    listing_failed,     \* a page request of the current listing failed
    history,            \* the results of the runs that ended
    mode,               \* the entry point that started the run
    holded_lookup,      \* InventoryUpdater: the SKU lookup
    file_products,      \* _process_single_file: file_products
    product_cursor,     \* _process_single_file: position in file_products
    file_result,        \* _process_single_file: file_result
    new_products_data,  \* process_new_products: new_products_data
    consolidated_data,  \* consolidated_data, then consolidated_products_data
    processed_products, \* _consolidate_variants_with_existing: processed_products
    products_for_deletion, \* self.products_for_deletion
    deletion_results,   \* execute_automatic_product_deletions: deletion_results
    temp_stock_csv,     \* the rows of the stock CSV, None before it is written
    holded_import_file, \* the rows of the import file, None before the transform
    new_products_result, \* what process_new_products returned
    trace,              \* the calls to the outside world, in order
    exit_code,          \* the exit code of the process, None while it runs
    import_skus,        \* column 'Sku Variante' of the import file
    data_integrity_issues, \* the entries of self.data_integrity_issues
    df,                 \* _extract_product_data: the rows of the DataFrame
    extracted_products, \* _extract_product_data: products
    validated_products, \* validate_products: validated_products
    folder,             \* the files of the monitored Dropbox folder, as listed
    dropbox_state,      \* dropbox_state.json: path -> modified time
    checks,             \* what each check_dropbox_trigger did
    folder_changed,     \* the folder changed after the last check
    disk,               \* the files of the run that are on the disk
    attachments         \* the attachment paths of the notification, None before

\* What the integrity check of the transform reads and writes.
integrityVars == <<import_skus, data_integrity_issues>>

\* The state of a FileProcessor that reads a file by itself.
feedVars == <<df, extracted_products, validated_products>>

\* The Dropbox folder and the state file of the DropboxHandler.
dropboxVars == <<folder, dropbox_state, checks, folder_changed>>

\* The temporary files of a run and what the notifier found of them.
diskVars == <<disk, attachments>>

workflowVars == <<new_products_data, consolidated_data, processed_products,
                  products_for_deletion, deletion_results, temp_stock_csv,
                  holded_import_file, new_products_result, exit_code,
                  integrityVars, feedVars, dropboxVars, diskVars>>

vars == <<holded, fullPages, file_paths, run, pc, page, all_products,
          conway_products, conway_skus, file_skus, cursor, scenario_results,
          results, stock_updates, stock_resets, puts, outcomes, listing_failed,
          history, mode, holded_lookup, file_products, product_cursor,
          file_result, workflowVars, trace>>

legacyVars == <<holded_lookup, file_products, product_cursor, file_result>>

catalogVars == <<fullPages, file_paths, run, history, mode>>

listingVars == <<page, all_products, conway_products, listing_failed>>

NewScenarioResults ==
    [stock_updates |-> 0, stock_resets |-> 0, skipped_not_in_holded |-> 0,
     new_products_for_creation |-> << >>, errors |-> << >>]

NewResults ==
    [processed_files |-> 0, processed_products |-> 0, stock_updates |-> 0,
     stock_resets |-> 0, skipped_not_in_holded |-> 0, errors |-> << >>,
     new_products_for_creation |-> << >>,
     summary |-> [stock_updates |-> << >>, total_stock_updates |-> 0],
     completed |-> FALSE]

NewFileResult == [processed_products |-> 0, stock_updates |-> 0, errors |-> << >>,
                  skipped_products |-> << >>]

\* A call to the outside world: the trigger ("trigger"), listing the catalog
\* for an index ("index"), writing the stock CSV ("csv"), the transform
\* ("transform"), a DELETE ("delete"), the images ("images"), a notification
\* ("notify"), the cleanup ("cleanup"); or an exception that leaves
\* update_inventory_robust ("exception").
Event(ev, id, ok) == [ev |-> ev, id |-> id, ok |-> ok]

NewDeletionResults ==
    [total_scheduled |-> 0, successful_deletions |-> 0, failed_deletions |-> 0,
     deletion_details |-> << >>, errors |-> << >>]

\* The state of a NewProductsProcessor before process_new_products.
NewWorkflow ==
    /\ new_products_data = << >>
    /\ consolidated_data = << >>
    /\ processed_products = {}
    /\ products_for_deletion = << >>
    /\ deletion_results = NewDeletionResults
    /\ temp_stock_csv = None
    /\ holded_import_file = None
    /\ new_products_result = None
    /\ exit_code = None
    /\ import_skus = << >>
    /\ data_integrity_issues = {}

\* No FileProcessor reads a file by itself.
NoFeed ==
    /\ df = << >>
    /\ extracted_products = << >>
    /\ validated_products = << >>

\* No file of a run is on the disk.
NoDisk ==
    /\ disk = {}
    /\ attachments = None

\* No DropboxHandler takes part.
NoDropbox ==
    /\ folder = << >>
    /\ dropbox_state = << >>
    /\ checks = << >>
    /\ folder_changed = FALSE

\* The state of a RobustInventoryUpdater that starts a run.
StartRun ==
    /\ pc' = "fetch"
    /\ page' = 1
    /\ all_products' = << >>
    /\ conway_products' = [ok |-> FALSE, products |-> << >>]
    /\ listing_failed' = FALSE
    /\ conway_skus' = << >>
    /\ file_skus' = << >>
    /\ cursor' = 1
    /\ scenario_results' = NewScenarioResults
    /\ results' = NewResults
    /\ stock_updates' = << >>
    /\ stock_resets' = << >>

Init ==
    /\ holded \in Catalogs
    /\ fullPages \in 0..MaxFullPages
    /\ file_paths \in FileLists
    /\ run = 1
    /\ pc = "fetch"
    /\ page = 1
    /\ all_products = << >>
    /\ conway_products = [ok |-> FALSE, products |-> << >>]
    /\ conway_skus = << >>
    /\ file_skus = << >>
    /\ cursor = 1
    /\ scenario_results = NewScenarioResults
    /\ results = NewResults
    /\ stock_updates = << >>
    /\ stock_resets = << >>
    /\ puts = << >>
    /\ outcomes = << >>
    /\ listing_failed = FALSE
    /\ history = << >>
    /\ mode = "robust"
    /\ holded_lookup = << >>
    /\ file_products = << >>
    /\ product_cursor = 1
    /\ file_result = NewFileResult
    /\ NewWorkflow
    /\ trace = << >>
    /\ NoFeed
    /\ NoDropbox
    /\ NoDisk

----------------------------------------------------------------------------
\* A failed request that ends the loop like a short page.
ListingFailedPartial(collected) == [ok |-> TRUE, products |-> collected]

\* get_conway_category_products returns None when a request fails, whatever
\* it has collected.
ListingFailed(collected) == [ok |-> FALSE, products |-> << >>]

(* HoldedAPI.get_conway_category_products: one iteration of the loop. *)

FetchPage ==
    /\ pc = "fetch"
    /\ \E status \in {"ok", "http_error", "exception"} :
        LET products == ListPage(holded, fullPages, page)
            collected == all_products \o SelectSeq(products, _is_conway_product)
        IN  IF status # "ok"
            THEN /\ conway_products' = ListingFailed(all_products)
                 /\ listing_failed' = TRUE
                 /\ pc' = "index"
                 /\ UNCHANGED <<page, all_products>>
            ELSE IF products = << >>
            THEN /\ conway_products' = [ok |-> TRUE, products |-> all_products]
                 /\ pc' = "index"
                 /\ UNCHANGED <<page, all_products, listing_failed>>
            ELSE IF Len(products) < PerPage
            THEN /\ conway_products' = [ok |-> TRUE, products |-> collected]
                 /\ all_products' = collected
                 /\ pc' = "index"
                 /\ UNCHANGED <<page, listing_failed>>
            ELSE /\ all_products' = collected
                 /\ page' = page + 1
                 /\ UNCHANGED <<pc, conway_products, listing_failed>>
    /\ UNCHANGED <<legacyVars, workflowVars, trace>>
    /\ UNCHANGED <<holded, catalogVars, conway_skus, file_skus, cursor,
                   scenario_results, results, stock_updates, stock_resets,
                   puts, outcomes>>

(* process_robust_inventory_update, step 1: the index, and the early return
   when it is empty. *)
BuildIndex ==
    /\ pc = "index"
    /\ LET index == get_conway_variant_skus(conway_products.ok, conway_products.products)
       IN  /\ conway_skus' = index
           /\ IF index = << >>
              THEN /\ results' = [results EXCEPT !.errors =
                                    Append(@, [msg |-> "catalog_unavailable", sku |-> ""])]
                   /\ pc' = "done"
              ELSE /\ pc' = "files"
                   /\ UNCHANGED results
    /\ cursor' = 1
    /\ trace' = Append(trace, Event("index", "run", conway_products.ok))
    /\ UNCHANGED <<legacyVars, workflowVars>>
    /\ UNCHANGED <<holded, catalogVars, listingVars, file_skus, scenario_results,
                   stock_updates, stock_resets, puts, outcomes>>

(* process_robust_inventory_update, step 2: one file of file_paths. *)
ProcessFile ==
    /\ pc = "files"
    /\ cursor <= Len(file_paths)
    /\ \E raised \in {b \in BOOLEAN : b => file_paths[cursor].bad} :
        IF raised
        THEN /\ results' = [results EXCEPT !.errors =
                              Append(@, [msg |-> "file_error", sku |-> ""])]
             /\ UNCHANGED file_skus
        ELSE /\ file_skus' = PutAll(file_skus, _process_stock_file(file_paths[cursor]))
             /\ results' = [results EXCEPT !.processed_files = @ + 1]
    /\ IF cursor = Len(file_paths)
       THEN pc' = "scenario1" /\ cursor' = 1
       ELSE pc' = pc /\ cursor' = cursor + 1
    /\ UNCHANGED <<legacyVars, workflowVars, trace>>
    /\ UNCHANGED <<holded, catalogVars, listingVars, conway_skus, scenario_results,
                   stock_updates, stock_resets, puts, outcomes>>

----------------------------------------------------------------------------
(* RobustInventoryUpdater._apply_filtering_scenarios *)

\* Scenario 1 without its condition.
Scenario1AppliesAlways(sku) == TRUE

\* Scenario 1 handles a SKU of the index: if sku not in file_skus.
Scenario1Applies(sku) == ~Has(file_skus, sku)

\* Scenario 2 handles only the first SKU of the stock list.
Scenario2AppliesFirstOnly(sku) == Has(conway_skus, sku) /\ file_skus[1].k = sku

\* Scenario 2 handles a SKU of the stock list: if sku in conway_skus.
Scenario2Applies(sku) == Has(conway_skus, sku)

\* Scenario 3 without its condition.
Scenario3AppliesAlways(sku) == TRUE

\* Scenario 3 handles a SKU of the stock list: if sku not in conway_skus.
Scenario3Applies(sku) == ~Has(conway_skus, sku)

\* if current_stock > 1
ResetNeededAbove1(current_stock) == current_stock > 1

\* if current_stock >= 0
ResetNeededFrom0(current_stock) == current_stock >= 0

\* if current_stock > 0
ResetNeeded(current_stock) == current_stock > 0

\* if current_stock < new_stock
UpdateNeededIfLower(current_stock, new_stock) == current_stock < new_stock

\* if current_stock != new_stock
UpdateNeeded(current_stock, new_stock) == current_stock # new_stock

\* A failed call that leaves no entry in errors.
FailedEntryDropped(msg, sku) == << >>

\* scenario_results['errors'].append(...) in the else branch of: if success
FailedEntry(msg, sku) == <<[msg |-> msg, sku |-> sku]>>

\* The log entry of a request and of its answer.
Sent(call, scenario, sku, current_stock, new_stock, resp) ==
    [run |-> run, scenario |-> scenario, sku |-> sku,
     product_id |-> call.request.product_id, warehouse |-> call.request.warehouse,
     key |-> call.request.key, delta |-> call.request.delta,
     current_stock |-> current_stock, new_stock |-> new_stock, ok |-> (resp = "ok")]

\* What a call of the executor does to the service and to the log.
Execute(call, scenario, sku, current_stock, new_stock, resp) ==
    /\ puts' = IF call.called
               THEN Append(puts, Sent(call, scenario, sku, current_stock, new_stock, resp))
               ELSE puts
    /\ holded' = IF call.called /\ resp = "ok" THEN ApplyStock(holded, call.request)
                 ELSE holded

Decided(scenario, sku, decision) ==
    outcomes' = Append(outcomes, [run |-> run, scenario |-> scenario, sku |-> sku,
                                  decision |-> decision])

(* Scenario 1, one iteration: a Conway SKU that is not in the stock list is
   set to 0. *)
Scenario1Step ==
    /\ pc = "scenario1"
    /\ IF cursor > Len(conway_skus)
       THEN /\ pc' = "scenario2"
            /\ cursor' = 1
            /\ UNCHANGED <<holded, puts, outcomes, scenario_results, stock_resets>>
       ELSE LET sku == conway_skus[cursor].k
                holded_product == conway_skus[cursor].v
                current_stock == _get_current_stock(holded_product)
            IN  /\ pc' = pc
                /\ cursor' = cursor + 1
                /\ IF ~Scenario1Applies(sku)
                   THEN UNCHANGED <<holded, puts, outcomes, scenario_results, stock_resets>>
                   ELSE IF current_stock = None
                   THEN /\ Decided("reset", sku, "no_current_stock")
                        /\ UNCHANGED <<holded, puts, scenario_results, stock_resets>>
                   ELSE IF ResetNeeded(current_stock[1])
                   THEN \E resp \in Responses :
                            LET call == _update_product_stock(holded_product, 0,
                                                              current_stock[1], resp)
                            IN  /\ Execute(call, "reset", sku, current_stock[1], 0, resp)
                                /\ IF call.success
                                   THEN /\ scenario_results' =
                                            [scenario_results EXCEPT !.stock_resets = @ + 1]
                                        /\ stock_resets' = Append(stock_resets,
                                            [sku |-> sku, old_stock |-> current_stock[1],
                                             new_stock |-> 0, action |-> "reset"])
                                        /\ Decided("reset", sku, "mutated")
                                   ELSE /\ scenario_results' =
                                            [scenario_results EXCEPT !.errors =
                                                @ \o FailedEntry("reset_failed", sku)]
                                        /\ Decided("reset", sku, IF call.called THEN "failed" ELSE "refused")
                                        /\ UNCHANGED stock_resets
                   ELSE /\ Decided("reset", sku, "noop")
                        /\ UNCHANGED <<holded, puts, scenario_results, stock_resets>>
    /\ UNCHANGED <<legacyVars, workflowVars, trace>>
    /\ UNCHANGED <<catalogVars, listingVars, conway_skus, file_skus, results,
                   stock_updates>>

(* Scenario 2, one iteration: a SKU of the stock list that is in the index is
   updated when its stock differs. *)
Scenario2Step ==
    /\ pc = "scenario2"
    /\ IF cursor > Len(file_skus)
       THEN /\ pc' = "scenario3"
            /\ cursor' = 1
            /\ UNCHANGED <<holded, puts, outcomes, scenario_results, stock_updates>>
       ELSE LET sku == file_skus[cursor].k
                file_product == file_skus[cursor].v
            IN  /\ pc' = pc
                /\ cursor' = cursor + 1
                /\ IF ~Scenario2Applies(sku)
                   THEN UNCHANGED <<holded, puts, outcomes, scenario_results, stock_updates>>
                   ELSE LET holded_product == Get(conway_skus, sku)
                            new_stock == FeedStock(file_product)
                            current_stock == _get_current_stock(holded_product)
                        IN  IF current_stock = None
                            THEN /\ Decided("update", sku, "no_current_stock")
                                 /\ UNCHANGED <<holded, puts, scenario_results, stock_updates>>
                            ELSE IF UpdateNeeded(current_stock[1], new_stock)
                            THEN \E resp \in Responses :
                                    LET call == _update_product_stock(holded_product, new_stock,
                                                                      current_stock[1], resp)
                                    IN  /\ Execute(call, "update", sku, current_stock[1],
                                                   new_stock, resp)
                                        /\ IF call.success
                                           THEN /\ scenario_results' =
                                                    [scenario_results EXCEPT
                                                        !.stock_updates = @ + 1]
                                                /\ stock_updates' = Append(stock_updates,
                                                    [sku |-> sku,
                                                     old_stock |-> current_stock[1],
                                                     new_stock |-> new_stock,
                                                     action |-> "update"])
                                                /\ Decided("update", sku, "mutated")
                                           ELSE /\ scenario_results' =
                                                    [scenario_results EXCEPT !.errors =
                                                        @ \o FailedEntry("update_failed", sku)]
                                                /\ Decided("update", sku, IF call.called THEN "failed" ELSE "refused")
                                                /\ UNCHANGED stock_updates
                            ELSE /\ Decided("update", sku, "noop")
                                 /\ UNCHANGED <<holded, puts, scenario_results, stock_updates>>
    /\ UNCHANGED <<legacyVars, workflowVars, trace>>
    /\ UNCHANGED <<catalogVars, listingVars, conway_skus, file_skus, results,
                   stock_resets>>

\* new_product_info of scenario 3: the keys it copies from the feed record.
\* It sets no 'is_new_variant' key.
new_product_info(sku, file_product) ==
    [sku |-> sku, stock |-> Some(FeedStock(file_product)), name |-> file_product.name,
     is_new_variant |-> None, from_holded |-> FALSE]

(* Scenario 3, one iteration: a SKU of the stock list that is not in the
   index is tracked for creation. *)
Scenario3Step ==
    /\ pc = "scenario3"
    /\ IF cursor > Len(file_skus)
       THEN /\ pc' = "report"
            /\ cursor' = 1
            /\ UNCHANGED <<outcomes, scenario_results>>
       ELSE LET sku == file_skus[cursor].k
                file_product == file_skus[cursor].v
            IN  /\ pc' = pc
                /\ cursor' = cursor + 1
                /\ IF ~Scenario3Applies(sku)
                   THEN UNCHANGED <<outcomes, scenario_results>>
                   ELSE /\ scenario_results' =
                            [scenario_results EXCEPT
                                !.skipped_not_in_holded = @ + 1,
                                !.new_products_for_creation =
                                    Append(@, new_product_info(sku, file_product))]
                        /\ Decided("new", sku, "tracked")
    /\ UNCHANGED <<legacyVars, workflowVars, trace>>
    /\ UNCHANGED <<holded, catalogVars, listingVars, conway_skus, file_skus, results,
                   stock_updates, stock_resets, puts>>

\* The summary without the resets.
all_stock_changes_updates_only == stock_updates

\* all_stock_changes = self.stock_updates + self.stock_resets
all_stock_changes == stock_updates \o stock_resets

(* process_robust_inventory_update, after step 3: the results and the summary
   for the notification. *)
Report ==
    /\ pc = "report"
    /\ results' = [results EXCEPT
                !.processed_products = Len(file_skus),
                !.stock_updates = scenario_results.stock_updates,
                !.stock_resets = scenario_results.stock_resets,
                !.skipped_not_in_holded = scenario_results.skipped_not_in_holded,
                !.new_products_for_creation = scenario_results.new_products_for_creation,
                !.errors = @ \o scenario_results.errors,
                !.summary = [stock_updates |-> all_stock_changes,
                             total_stock_updates |-> Len(all_stock_changes)],
                !.completed = TRUE]
    /\ pc' = "done"
    /\ UNCHANGED <<legacyVars, workflowVars, trace>>
    /\ UNCHANGED <<holded, catalogVars, listingVars, conway_skus, file_skus, cursor,
                   scenario_results, stock_updates, stock_resets, puts, outcomes>>

(* The next triggered run: a new updater, the same files, the catalog as the
   previous run left it. *)
Rerun ==
    /\ pc = "done"
    /\ run < MaxRuns
    /\ run' = run + 1
    /\ StartRun
    /\ history' = Append(history, results)
    /\ trace' = << >>
    /\ UNCHANGED <<holded, fullPages, file_paths, puts, outcomes, mode, legacyVars,
                   workflowVars>>

----------------------------------------------------------------------------
(* InventoryUpdater.process_inventory_update *)

InitLookup ==
    /\ holded \in Catalogs
    /\ fullPages = 0
    /\ file_paths \in FileLists
    /\ run = 1
    /\ pc = "lookup"
    /\ page = 1
    /\ all_products = << >>
    /\ conway_products = [ok |-> FALSE, products |-> << >>]
    /\ conway_skus = << >>
    /\ file_skus = << >>
    /\ cursor = 1
    /\ scenario_results = NewScenarioResults
    /\ results = NewResults
    /\ stock_updates = << >>
    /\ stock_resets = << >>
    /\ puts = << >>
    /\ outcomes = << >>
    /\ listing_failed = FALSE
    /\ history = << >>
    /\ mode \in {"legacy", "inject"}
    /\ holded_lookup = << >>
    /\ file_products = << >>
    /\ product_cursor = 1
    /\ file_result = NewFileResult
    /\ NewWorkflow
    /\ trace = << >>
    /\ NoFeed
    /\ NoDropbox
    /\ NoDisk

(* process_inventory_update up to the loop over the files: the products of
   Holded and the lookup, or the early return. *)
LegacyLookup ==
    /\ pc = "lookup"
    /\ mode = "legacy"
    /\ \E fetched \in BOOLEAN :
        IF ~fetched \/ holded = << >>
        THEN /\ results' = [results EXCEPT !.errors =
                              Append(@, [msg |-> "catalog_unavailable", sku |-> ""])]
             /\ pc' = "done"
             /\ UNCHANGED holded_lookup
        ELSE /\ holded_lookup' = _create_sku_lookup(<< >>, holded)
             /\ pc' = "legacy_file"
             /\ UNCHANGED results
    /\ cursor' = 1
    /\ UNCHANGED <<holded, catalogVars, listingVars, conway_skus, file_skus,
                   scenario_results, stock_updates, stock_resets, puts, outcomes,
                   file_products, product_cursor, file_result, workflowVars, trace>>

\* results after a file: the merge of its file_result.
Merged(file_res) ==
    [results EXCEPT !.processed_files = @ + 1,
                    !.processed_products = @ + file_res.processed_products,
                    !.stock_updates = @ + file_res.stock_updates,
                    !.errors = @ \o file_res.errors,
                    !.completed = (cursor = Len(file_paths))]

(* _process_single_file up to its loop: the products of the file, or the
   return when there are none. *)
LegacyOpenFile ==
    /\ pc = "legacy_file"
    /\ cursor <= Len(file_paths)
    /\ LET read == process_inventory_file(file_paths[cursor])
       IN  IF ~read.ok \/ read.products = << >>
           THEN /\ results' = Merged([NewFileResult EXCEPT !.errors =
                                        <<[msg |-> "no_valid_products", sku |-> ""]>>])
                /\ cursor' = cursor + 1
                /\ pc' = IF cursor = Len(file_paths) THEN "done" ELSE pc
                /\ UNCHANGED <<file_products, product_cursor, file_result>>
           ELSE /\ file_products' = read.products
                /\ product_cursor' = 1
                /\ file_result' = NewFileResult
                /\ pc' = "legacy_products"
                /\ UNCHANGED <<results, cursor>>
    /\ UNCHANGED <<holded, catalogVars, listingVars, conway_skus, file_skus,
                   scenario_results, stock_updates, stock_resets, puts, outcomes,
                   holded_lookup, workflowVars, trace>>

(* _process_single_file, one iteration of the loop over the products; after
   the last one, the merge of file_result into results. *)
LegacyProductStep ==
    /\ pc = "legacy_products"
    /\ IF product_cursor > Len(file_products)
       THEN /\ results' = Merged(file_result)
            /\ cursor' = cursor + 1
            /\ pc' = IF cursor = Len(file_paths) THEN "done" ELSE "legacy_file"
            /\ UNCHANGED <<holded, puts, outcomes, stock_updates, product_cursor,
                           file_result>>
       ELSE LET product == file_products[product_cursor]
                sku == product.sku
            IN  /\ product_cursor' = product_cursor + 1
                /\ UNCHANGED <<results, cursor, pc>>
                /\ IF ~Has(holded_lookup, sku)
                   THEN /\ file_result' = [file_result EXCEPT !.skipped_products =
                                               Append(@, sku)]
                        /\ Decided("legacy", sku, "not_in_lookup")
                        /\ UNCHANGED <<holded, puts, stock_updates>>
                   ELSE IF product.stock = None
                   THEN /\ file_result' = [file_result EXCEPT !.processed_products = @ + 1]
                        /\ Decided("legacy", sku, "no_stock_field")
                        /\ UNCHANGED <<holded, puts, stock_updates>>
                   ELSE \E resp \in Responses :
                            LET holded_product == Get(holded_lookup, sku)
                                call == _update_stock_if_different(holded_product,
                                                                   product.stock[1], resp)
                                old == _get_current_stock(holded_product)
                            IN  /\ Execute(call, "legacy", sku,
                                           IF old = None THEN 0 ELSE old[1],
                                           product.stock[1], resp)
                                /\ Decided("legacy", sku, call.why)
                                /\ file_result' =
                                      [file_result EXCEPT
                                          !.processed_products = @ + 1,
                                          !.stock_updates = IF call.success THEN @ + 1 ELSE @]
                                /\ stock_updates' =
                                      IF call.success
                                      THEN Append(stock_updates,
                                                  [sku |-> sku, old_stock |-> old[1],
                                                   new_stock |-> product.stock[1],
                                                   action |-> "update"])
                                      ELSE stock_updates
    /\ UNCHANGED <<catalogVars, listingVars, conway_skus, file_skus, scenario_results,
                   stock_resets, holded_lookup, file_products, workflowVars, trace>>

(* The index of the variant-only property test: the lookup with its main
   product records is handed to _apply_filtering_scenarios as conway_skus. *)
InjectLookup ==
    /\ pc = "lookup"
    /\ mode = "inject"
    /\ conway_skus' = _create_sku_lookup(<< >>, holded)
    /\ pc' = "files"
    /\ cursor' = 1
    /\ UNCHANGED <<holded, catalogVars, listingVars, file_skus, scenario_results,
                   results, stock_updates, stock_resets, puts, outcomes, legacyVars,
                   workflowVars, trace>>

NextLookup ==
    \/ LegacyLookup
    \/ LegacyOpenFile
    \/ LegacyProductStep
    \/ InjectLookup
    \/ ProcessFile
    \/ Scenario1Step
    \/ Scenario2Step
    \/ Scenario3Step
    \/ Report

\* A run over a lookup that holds main product records.
SpecLookup == InitLookup /\ [][NextLookup]_vars

Next ==
    \/ FetchPage
    \/ BuildIndex
    \/ ProcessFile
    \/ Scenario1Step
    \/ Scenario2Step
    \/ Scenario3Step
    \/ Report

\* One triggered run.
Spec == Init /\ [][Next]_vars

\* A listing of the category by itself.
InitListing == Init /\ file_paths = <<BadFile>>

\* get_conway_category_products: the loop runs on until it returns; nothing
\* else runs in the process.
SpecListing == InitListing /\ [][FetchPage]_vars /\ WF_vars(FetchPage)

NextRerun ==
    \/ FetchPage
    \/ BuildIndex
    \/ ProcessFile
    \/ Scenario1Step
    \/ Scenario2Step
    \/ Scenario3Step
    \/ Report
    \/ Rerun

\* Successive runs on the same files.
SpecRerun == Init /\ [][NextRerun]_vars

----------------------------------------------------------------------------
(* NewProductsProcessor.process_new_products *)

\* Largest number of candidates handed to process_new_products.
MaxCandidates == 2

\* The names of the candidates; "" is the name of a feed row without one.
CandidateNames == {"Bike", "bike ", "New", ""}

\* A candidate as scenario 3 tracks it; is_new_variant is the key a caller may
\* add.
Candidate(sku, name, flag) ==
    [sku |-> sku, stock |-> Some(1), name |-> name, is_new_variant |-> flag,
     from_holded |-> FALSE]

\* The SKU of the i-th candidate: the SKUs of a feed map are distinct.
CandidateSku(i) ==
    CASE i = 1 -> "N1" [] i = 2 -> "N2" [] i = 3 -> "N3" [] OTHER -> "N4"

CandidateLists ==
    UNION { { [i \in 1..n |-> Candidate(CandidateSku(i), names[i], flags[i])] :
                names \in [1..n -> CandidateNames],
                flags \in [1..n -> {None, Some(TRUE)}] } :
            n \in 0..MaxCandidates }

\* The catalogs of the consolidation: product "Bike" with variant V1 of SKU A
\* and a second variant that has its own SKU, no SKU or the SKU of V1, a
\* stock of its own or none, and categoryFields that is a list or null.
WorkflowCatalogs ==
    { << [id |-> "P1", sku |-> "", name |-> "Bike", stock |-> None, conway |-> TRUE,
          variants |-> << [id |-> "V1", sku |-> "A", stock |-> Some(1),
                            categoryFields |-> "list"],
                          [id |-> "V2", sku |-> sku2, stock |-> st2,
                            categoryFields |-> cf] >>],
         [id |-> "P2", sku |-> "C", name |-> "Solo", stock |-> Some(1), conway |-> TRUE,
          variants |-> << >>] >> :
        sku2 \in {"B", "", "A"}, st2 \in {Some(0), Some(1), None},
        cf \in {"list", "null"} }

\* The variables of the reconciliation run, which the workflow leaves alone.
runVars == <<fullPages, file_paths, run, history, mode, page, all_products,
             conway_products, listing_failed, conway_skus, file_skus,
             scenario_results, results, stock_updates, stock_resets, puts,
             outcomes, legacyVars, feedVars, dropboxVars>>

\* process_new_products called by itself.
InitWorkflow ==
    /\ holded \in WorkflowCatalogs
    /\ fullPages = 0
    /\ file_paths = << >>
    /\ run = 1
    /\ pc = "split"
    /\ page = 1
    /\ all_products = << >>
    /\ conway_products = [ok |-> FALSE, products |-> << >>]
    /\ conway_skus = << >>
    /\ file_skus = << >>
    /\ cursor = 1
    /\ scenario_results = NewScenarioResults
    /\ results = NewResults
    /\ stock_updates = << >>
    /\ stock_resets = << >>
    /\ puts = << >>
    /\ outcomes = << >>
    /\ listing_failed = FALSE
    /\ history = << >>
    /\ mode = "workflow"
    /\ holded_lookup = << >>
    /\ file_products = << >>
    /\ product_cursor = 1
    /\ file_result = NewFileResult
    /\ new_products_data \in CandidateLists
    /\ consolidated_data = << >>
    /\ processed_products = {}
    /\ products_for_deletion = << >>
    /\ deletion_results = NewDeletionResults
    /\ temp_stock_csv = None
    /\ holded_import_file = None
    /\ new_products_result = None
    /\ exit_code = None
    /\ import_skus = << >>
    /\ data_integrity_issues = {}
    /\ trace = << >>
    /\ NoFeed
    /\ NoDropbox
    /\ NoDisk

\* The file that the trigger downloaded, or the local file of
\* process_local_file.
FeedFile == "stock_feed.csv"

\* conway_product_images_<timestamp>.zip
ImagesZip == "conway_product_images.zip"

\* The files that the steps of process_new_products write.
WorkflowFiles ==
    {"stock_Stocklist_CONWAY.csv", "conway_products_holded_import.csv", ImagesZip}

\* The wrapper removes the files of the processor whenever it returns.
cleanup_on_return_always(files) == files \cap WorkflowFiles

\* process_new_products_workflow after process_new_products returned, a
\* result or None: "Don't cleanup here", no file is removed.
cleanup_on_return(files) == {}

\* The disk when process_new_products has returned to its caller.
Returned(files) ==
    IF mode = "workflow" THEN files ELSE files \ cleanup_on_return(files)

\* Where process_new_products returns to: its caller in main, or nowhere.
AfterWorkflow == IF mode = "workflow" THEN "returned" ELSE "notify"

(* process_new_products up to step 1: the two kinds of candidates. *)
SplitCandidates ==
    /\ pc = "split"
    /\ IF new_products_data = << >>
       THEN /\ pc' = AfterWorkflow
            /\ UNCHANGED consolidated_data
       ELSE IF NewVariants(new_products_data) # << >>
       THEN /\ pc' = "consolidate"
            /\ UNCHANGED consolidated_data
       ELSE /\ pc' = "csv"
            /\ consolidated_data' = CompletelyNew(new_products_data)
    /\ cursor' = 1
    /\ UNCHANGED <<holded, runVars, trace, new_products_data, processed_products,
                   products_for_deletion, deletion_results, temp_stock_csv,
                   holded_import_file, new_products_result, exit_code, integrityVars>>
    /\ UNCHANGED diskVars

(* _consolidate_variants_with_existing, one iteration of its loop; after the
   last one, step 2 of process_new_products adds the completely new products. *)
ConsolidateStep ==
    /\ pc = "consolidate"
    /\ LET new_variants == NewVariants(new_products_data)
       IN  IF cursor > Len(new_variants)
           THEN /\ consolidated_data' =
                       consolidated_data \o CompletelyNew(new_products_data)
                /\ pc' = "csv"
                /\ cursor' = 1
                /\ UNCHANGED <<processed_products, products_for_deletion, trace>>
           ELSE LET new_variant == new_variants[cursor]
                    product_name == new_variant.name
                IN  /\ pc' = pc
                    /\ cursor' = cursor + 1
                    /\ IF AlreadyProcessed(product_name, processed_products)
                       THEN /\ consolidated_data' = Append(consolidated_data, new_variant)
                            /\ UNCHANGED <<processed_products, products_for_deletion,
                                           trace>>
                       ELSE \E fetched \in BOOLEAN :
                              LET existing_variants ==
                                      get_all_variants_by_product_name(product_name,
                                                                       fetched, holded)
                                  raised == \E i \in DOMAIN existing_variants :
                                                Malformed(existing_variants[i])
                                  product_new_variants ==
                                      SelectSeq(new_variants,
                                                LAMBDA v : v.name = product_name)
                              IN  /\ trace' = Append(trace,
                                                     Event("index", product_name, fetched))
                                  /\ products_for_deletion' =
                                        products_for_deletion
                                            \o DeletionEntries(existing_variants,
                                                               product_name)
                                  /\ IF raised
                                     THEN /\ consolidated_data' =
                                                consolidated_data
                                                    \o ConvertExisting(existing_variants,
                                                                       product_name)
                                                    \o <<new_variant>>
                                          /\ UNCHANGED processed_products
                                     ELSE /\ consolidated_data' =
                                                consolidated_data
                                                    \o ConvertExisting(existing_variants,
                                                                       product_name)
                                                    \o product_new_variants
                                          /\ processed_products' =
                                                processed_products \cup {product_name}
    /\ UNCHANGED <<holded, runVars, new_products_data, deletion_results,
                   temp_stock_csv, holded_import_file, new_products_result,
                   exit_code, integrityVars>>
    /\ UNCHANGED diskVars

(* Step 3: _create_temporary_stock_csv, and the return when it fails. *)
CreateStockCsv ==
    /\ pc = "csv"
    /\ \E written \in BOOLEAN :
        /\ trace' = Append(trace, Event("csv", "", written))
        /\ IF written
           THEN /\ temp_stock_csv' = Some("stock_Stocklist_CONWAY.csv")
                /\ disk' = disk \cup {"stock_Stocklist_CONWAY.csv"}
                /\ pc' = "transform"
           ELSE /\ pc' = AfterWorkflow
                /\ disk' = Returned(disk)
                /\ UNCHANGED temp_stock_csv
    /\ UNCHANGED <<holded, runVars, cursor, new_products_data, consolidated_data,
                   processed_products, products_for_deletion, deletion_results,
                   holded_import_file, new_products_result, exit_code, integrityVars>>
    /\ UNCHANGED attachments

\* Step 5 runs when something is scheduled, whatever the transform returned.
DeletionDueAlways(import_file, scheduled) == scheduled # << >>

\* Step 5 is reached with an import file and runs when something is scheduled.
DeletionDue(import_file, scheduled) == import_file # None /\ scheduled # << >>

\* stock_record of _create_temporary_stock_csv: a product as a row of the
\* stock CSV.  A blank Name is read back from the file as NaN.
stock_record(product) ==
    [Item |-> product.sku, Name |-> product.name, Stock_qty |-> product.stock]

\* The rows of stock_Stocklist_CONWAY.csv for the products of the call.
stock_data(products) == [i \in DOMAIN products |-> stock_record(products[i])]

\* Column Artikelnummer of the EAN information file: every SKU, every SKU
\* but N1, the new SKUs only, none.
EanInfos ==
    { {"A", "B", "N1", "N2", "N3", "N4"}, {"A", "B", "N2", "N3", "N4"},
      {"N1", "N2", "N3", "N4"}, {} }

\* transform_products.main: column 'Sku Variante' of the import file.  The
\* rows are grouped by Name, which leaves out the rows whose Name is NaN; a
\* row without a matching Artikelnummer is skipped; every other row gives one
\* row.  The rows are kept in the order of the stock CSV.
transform_products(stock_df, info_df) ==
    LET written == SelectSeq(stock_df, LAMBDA stock_row :
                                 stock_row.Name # "" /\ stock_row.Item \in info_df)
    IN  [i \in DOMAIN written |-> written[i].Item]

\* The outcomes of _run_transform_products: it returns None (a missing
\* file, an exception), or the import file made with an EAN information file.
TransformAnswers ==
    {[ok |-> FALSE, info_df |-> {}]} \cup {[ok |-> TRUE, info_df |-> e] : e \in EanInfos}

\* The missing SKUs are looked for only when two or more rows are missing.
IntegrityCheckDueBelowOne(output_count, expected_input_count) ==
    output_count + 1 < expected_input_count

\* if output_count < expected_input_count
IntegrityCheckDue(output_count, expected_input_count) ==
    output_count < expected_input_count

\* missing_skus = input_skus - output_skus
missing_skus(input_df, output_skus) ==
    {input_df[i].Item : i \in DOMAIN input_df}
        \ {output_skus[i] : i \in DOMAIN output_skus}

\* failed_product for a missing SKU: the name is the Name of its first row.
failed_product(input_df, sku) ==
    [sku |-> sku,
     name |-> input_df[CHOOSE i \in DOMAIN input_df :
                          /\ input_df[i].Item = sku
                          /\ \A j \in 1..(i - 1) : input_df[j].Item # sku].Name,
     reason |-> "Missing from transform_products.py output - likely EAN lookup failure"]

\* self.data_integrity_issues after the integrity check of an import file;
\* the entries are kept as a set, the loop runs over a set of SKUs.
IntegrityIssues(issues, input_df, output_skus, expected_input_count) ==
    IF IntegrityCheckDue(Len(output_skus), expected_input_count)
    THEN issues \cup {failed_product(input_df, sku) :
                         sku \in missing_skus(input_df, output_skus)}
    ELSE issues

(* Step 4: _run_transform_products_with_integrity_check, and the return when
   it gives no import file. *)
RunTransform ==
    /\ pc = "transform"
    /\ \E answer \in TransformAnswers :
        LET transformed == answer.ok
            import_file == IF transformed
                           THEN Some("conway_products_holded_import.csv") ELSE None
            input_df == stock_data(consolidated_data)
            output_skus == IF transformed
                           THEN transform_products(input_df, answer.info_df) ELSE << >>
        IN  /\ trace' = Append(trace, Event("transform", "", transformed))
            /\ holded_import_file' = import_file
            /\ disk' = IF transformed
                       THEN disk \cup {"conway_products_holded_import.csv"}
                       ELSE Returned(disk)
            /\ import_skus' = output_skus
            /\ data_integrity_issues' =
                  IF transformed
                  THEN IntegrityIssues(data_integrity_issues, input_df, output_skus,
                                       Len(consolidated_data))
                  ELSE data_integrity_issues
            /\ IF DeletionDue(import_file, products_for_deletion)
               THEN /\ pc' = "delete"
                    /\ deletion_results' =
                          [NewDeletionResults EXCEPT
                              !.total_scheduled = Len(products_for_deletion)]
               ELSE /\ pc' = IF import_file = None THEN AfterWorkflow ELSE "images"
                    /\ UNCHANGED deletion_results
    /\ cursor' = 1
    /\ UNCHANGED <<holded, runVars, new_products_data, consolidated_data,
                   processed_products, products_for_deletion, temp_stock_csv,
                   new_products_result, exit_code>>
    /\ UNCHANGED attachments

\* The log entry of a DELETE: the status of the answer (0 when the request
\* raised) and what delete_product_with_variants returned.
Deleted(product_id, status, raised, success) ==
    [ev |-> "delete", id |-> product_id, ok |-> success,
     status |-> IF raised THEN 0 ELSE status]

(* Step 5: execute_automatic_product_deletions, one iteration of its loop. *)
DeleteStep ==
    /\ pc = "delete"
    /\ IF cursor > Len(products_for_deletion)
       THEN /\ pc' = "images"
            /\ cursor' = 1
            /\ UNCHANGED <<holded, trace, deletion_results>>
       ELSE \E answer \in DeleteAnswers :
              LET product_info == products_for_deletion[cursor]
                  product_id == product_info.product_id
                  raised == answer = "exception"
                  status == DeleteStatus(holded, product_id, answer)
                  success == delete_product_with_variants(status, raised)
                  detail == [product_id |-> product_id,
                             status |-> IF success THEN "success" ELSE "failed"]
              IN  /\ holded' = IF answer = "served"
                               THEN RemoveProduct(holded, product_id) ELSE holded
                  /\ trace' = Append(trace, Deleted(product_id, status, raised, success))
                  /\ deletion_results' =
                        IF success
                        THEN [deletion_results EXCEPT
                                 !.successful_deletions = @ + 1,
                                 !.deletion_details = Append(@, detail)]
                        ELSE [deletion_results EXCEPT
                                 !.failed_deletions = @ + 1,
                                 !.errors = Append(@, product_id),
                                 !.deletion_details = Append(@, detail)]
                  /\ cursor' = cursor + 1
                  /\ pc' = pc
    /\ UNCHANGED <<runVars, new_products_data, consolidated_data, processed_products,
                   products_for_deletion, temp_stock_csv, holded_import_file,
                   new_products_result, exit_code, integrityVars>>
    /\ UNCHANGED diskVars

(* Step 6 and the result: the images are downloaded and uploaded, or not. *)
FinishWorkflow ==
    /\ pc = "images"
    /\ \E zipped \in BOOLEAN, uploaded \in BOOLEAN :
        /\ uploaded => zipped
        /\ trace' = Append(trace, Event("images", "", uploaded))
        /\ disk' = Returned(IF zipped THEN disk \cup {ImagesZip} ELSE disk)
        /\ new_products_result' =
              Some([holded_import |-> holded_import_file,
                    temp_stock_csv |-> temp_stock_csv,
                    images_download_link |-> uploaded,
                    products_for_deletion |-> products_for_deletion,
                    deletion_results |-> deletion_results,
                    data_integrity_issues |-> data_integrity_issues])
    /\ pc' = AfterWorkflow
    /\ UNCHANGED <<holded, runVars, cursor, new_products_data, consolidated_data,
                   processed_products, products_for_deletion, deletion_results,
                   temp_stock_csv, holded_import_file, exit_code, integrityVars>>
    /\ UNCHANGED attachments

NextWorkflow ==
    \/ SplitCandidates
    \/ ConsolidateStep
    \/ CreateStockCsv
    \/ RunTransform
    \/ DeleteStep
    \/ FinishWorkflow

\* One call of process_new_products.
SpecWorkflow == InitWorkflow /\ [][NextWorkflow]_vars

----------------------------------------------------------------------------
(* main.main and main.process_local_file *)

\* The catalogs of a triggered run.
MainCatalogs ==
    { products \in WorkflowCatalogs :
        /\ products[1].variants[2].sku = "B"
        /\ products[1].variants[2].categoryFields = "list" }

\* The files the trigger delivers: one file that reports SKU A of the catalog
\* or not, and new SKUs under the name of a catalog product, under that name
\* in another case, or under a new name; or a file that cannot be read.
MainFileLists ==
    { <<[bad |-> FALSE, rows |-> ra \o rb \o rc]>> :
        ra \in {<< >>, NamedRow("A", 1, "Bike"), NamedRow("A", 0, "Bike")},
        rb \in {<< >>, NamedRow("N1", 1, "Bike"), NamedRow("N1", 1, "New")},
        rc \in {<< >>, NamedRow("N2", 1, "bike ")} }
        \cup {<<BadFile>>}

\* A run started by main ("main") or by process_local_file ("file").
InitMain ==
    /\ holded \in MainCatalogs
    /\ fullPages = 0
    /\ file_paths \in MainFileLists
    /\ run = 1
    /\ mode \in {"main", "file"}
    /\ pc = IF mode = "main" THEN "trigger" ELSE "construct"
    /\ page = 1
    /\ all_products = << >>
    /\ conway_products = [ok |-> FALSE, products |-> << >>]
    /\ conway_skus = << >>
    /\ file_skus = << >>
    /\ cursor = 1
    /\ scenario_results = NewScenarioResults
    /\ results = NewResults
    /\ stock_updates = << >>
    /\ stock_resets = << >>
    /\ puts = << >>
    /\ outcomes = << >>
    /\ listing_failed = FALSE
    /\ history = << >>
    /\ holded_lookup = << >>
    /\ file_products = << >>
    /\ product_cursor = 1
    /\ file_result = NewFileResult
    /\ NewWorkflow
    /\ trace = << >>
    /\ NoFeed
    /\ NoDropbox
    /\ disk = IF mode = "file" THEN {FeedFile} ELSE {}
    /\ attachments = None

\* The variables main's own steps leave alone.
mainFrame == <<holded, runVars, cursor, consolidated_data, processed_products,
               products_for_deletion, deletion_results, temp_stock_csv,
               holded_import_file, new_products_result, integrityVars>>

(* main, step 1: check_dropbox_trigger returns files, returns none, or raises;
   without files main returns. *)
CheckTrigger ==
    /\ pc = "trigger"
    /\ \E found \in {"files", "no_files", "raised"} :
        /\ trace' = Append(trace, Event("trigger", found, found = "files"))
        /\ IF found = "files"
           THEN /\ pc' = "construct"
                /\ disk' = disk \cup {FeedFile}
                /\ UNCHANGED exit_code
           ELSE /\ pc' = "exited"
                /\ exit_code' = Some(0)
                /\ UNCHANGED disk
    /\ UNCHANGED <<mainFrame, new_products_data, attachments>>

(* update_inventory_robust before its try: RobustInventoryUpdater() builds a
   HoldedAPI, which raises when the warehouse id is missing. *)
ConstructUpdater ==
    /\ pc = "construct"
    /\ \E raised \in BOOLEAN :
        /\ pc' = IF raised THEN "escaped" ELSE "fetch"
        /\ trace' = IF raised THEN Append(trace, Event("exception", "construct", FALSE))
                    ELSE trace
    /\ UNCHANGED <<mainFrame, new_products_data, exit_code>>
    /\ UNCHANGED diskVars

(* main, step 2.5: the candidates of the run go to the new products workflow,
   if there are any. *)
StartWorkflow ==
    /\ pc = "done"
    /\ mode \in {"main", "file"}
    /\ new_products_data' = results.new_products_for_creation
    /\ pc' = IF results.new_products_for_creation # << >> THEN "split" ELSE "notify"
    /\ UNCHANGED <<mainFrame, trace, exit_code>>
    /\ UNCHANGED diskVars

\* attachment_files of main: the import file of the result.  The result has
\* no key 'images_zip', so the archive is never attached.
attachment_files(result) ==
    IF result = None THEN {}
    ELSE IF result[1].holded_import # None THEN {result[1].holded_import[1]} ELSE {}

\* _send_email: the paths it was handed and those that exist when it builds
\* the message.
Attached(paths) == [handed |-> paths, found |-> paths \cap disk]

\* cleanup_temp_files(files_to_process) of main: the downloaded file;
\* process_local_file does not call it.
cleanup_temp_files(entry) == IF entry = "main" THEN {FeedFile} ELSE {}

\* Step 4.5: cleanup_new_products_files, when there were candidates and
\* attachments: the paths of the result and the files of its patterns.
cleanup_new_products_files(candidates, attached) ==
    IF candidates # << >> /\ attached # {} THEN WorkflowFiles ELSE {}

\* main sends the update notification only when the run changed something.
NotificationDueIfChanged(update_results) ==
    update_results.stock_updates + update_results.stock_resets > 0

\* main sends the update notification whatever the run returned.
NotificationDue(update_results) == TRUE

(* main, step 3: send_update_notification sends, fails or raises.  In main
   the call has its own try; in process_local_file an exception leaves the
   function through its handler, which logs it. *)
Notify ==
    /\ pc = "notify"
    /\ IF NotificationDue(results)
       THEN \E sent \in {"sent", "failed", "raised"} :
              /\ trace' = Append(trace, Event("notify", "update", sent = "sent"))
              /\ attachments' = Some(Attached(attachment_files(new_products_result)))
              /\ IF sent = "raised" /\ mode = "file"
                 THEN pc' = "escaped"
                 ELSE pc' = "cleanup"
       ELSE /\ pc' = "cleanup"
            /\ UNCHANGED <<trace, attachments>>
    /\ UNCHANGED <<mainFrame, new_products_data, exit_code>>
    /\ UNCHANGED disk

(* main, steps 4 and 4.5: the temporary files are removed and main returns. *)
Cleanup ==
    /\ pc = "cleanup"
    /\ trace' = Append(trace, Event("cleanup", "", TRUE))
    /\ disk' = (disk \ cleanup_temp_files(mode))
                  \ cleanup_new_products_files(new_products_data,
                                               attachment_files(new_products_result))
    /\ pc' = "exited"
    /\ exit_code' = Some(0)
    /\ UNCHANGED <<mainFrame, new_products_data, attachments>>

\* The handler of main exits with the code of a completed run.
EscapeExitCodeZero(entry) == 0

\* The exit code after an exception reached the handler: main calls
\* sys.exit(1), process_local_file logs and returns.
EscapeExitCode(entry) == IF entry = "main" THEN 1 ELSE 0

(* The handler of an exception that leaves the run: main attempts the error
   notification, whose own failure it logs, and exits; process_local_file
   logs the exception. *)
HandleEscape ==
    /\ pc = "escaped"
    /\ IF mode = "main"
       THEN \E sent \in {"sent", "failed", "raised"} :
              trace' = Append(trace, Event("notify", "error", sent = "sent"))
       ELSE UNCHANGED trace
    /\ exit_code' = Some(EscapeExitCode(mode))
    /\ pc' = "exited"
    /\ UNCHANGED <<mainFrame, new_products_data>>
    /\ UNCHANGED diskVars

NextMain ==
    \/ CheckTrigger
    \/ ConstructUpdater
    \/ FetchPage
    \/ BuildIndex
    \/ ProcessFile
    \/ Scenario1Step
    \/ Scenario2Step
    \/ Scenario3Step
    \/ Report
    \/ StartWorkflow
    \/ SplitCandidates
    \/ CreateStockCsv
    \/ RunTransform
    \/ FinishWorkflow
    \/ Notify
    \/ Cleanup
    \/ HandleEscape

\* One run of main or of process_local_file.
SpecMain == InitMain /\ [][NextMain]_vars

----------------------------------------------------------------------------
(* _apply_filtering_scenarios on dicts in any iteration order *)

\* The orders in which a dict may hand out its items.
Orders(d) ==
    { [i \in DOMAIN d |-> d[order[i]]] :
        order \in {f \in [DOMAIN d -> DOMAIN d] :
                      \A i, j \in DOMAIN d : f[i] = f[j] => i = j} }

\* The catalogs whose index holds the SKUs A and B.
OrderCatalogs ==
    { products \in Catalogs :
        /\ products[1].sku = ""
        /\ products[1].stock = None
        /\ products[1].variants[1].sku = "A"
        /\ products[1].variants[2].sku = "B" }

\* _apply_filtering_scenarios called with the index of a catalog and the
\* feed map of a file, each in one of its orders.
InitOrder ==
    /\ holded \in OrderCatalogs
    /\ fullPages = 0
    /\ file_paths = << >>
    /\ run = 1
    /\ pc = "scenario1"
    /\ page = 1
    /\ all_products = << >>
    /\ conway_products = [ok |-> TRUE, products |-> holded]
    /\ conway_skus \in Orders(get_conway_variant_skus(TRUE, holded))
    /\ \E file \in GoodFiles : file_skus \in Orders(_process_stock_file(file))
    /\ cursor = 1
    /\ scenario_results = NewScenarioResults
    /\ results = NewResults
    /\ stock_updates = << >>
    /\ stock_resets = << >>
    /\ puts = << >>
    /\ outcomes = << >>
    /\ listing_failed = FALSE
    /\ history = << >>
    /\ mode = "scenarios"
    /\ holded_lookup = << >>
    /\ file_products = << >>
    /\ product_cursor = 1
    /\ file_result = NewFileResult
    /\ NewWorkflow
    /\ trace = << >>
    /\ NoFeed
    /\ NoDropbox
    /\ NoDisk

NextOrder ==
    \/ Scenario1Step
    \/ Scenario2Step
    \/ Scenario3Step
    \/ Report

\* One call of _apply_filtering_scenarios and the report of its results.
SpecOrder == InitOrder /\ [][NextOrder]_vars

----------------------------------------------------------------------------
(* FileProcessor: process_inventory_file on the cells of a file *)

\* Largest number of rows of the file.
MaxRows == 2

\* The SKU of the i-th row.
RowSku(i) == CASE i = 1 -> "A" [] i = 2 -> "B" [] i = 3 -> "C" [] OTHER -> "D"

\* The DataFrames of a file: each row has a SKU, a stock cell, a price or
\* none, and a model year or none.
DataFrames ==
    UNION { { [i \in 1..n |-> [sku |-> RowSku(i), stock |-> cells[i],
                               price |-> prices[i], year |-> years[i]]] :
                cells \in [1..n -> StockCells], prices \in [1..n -> BOOLEAN],
                years \in [1..n -> BOOLEAN] } :
            n \in 1..MaxRows }

\* process_inventory_file called with a file of stock cells.
InitFeed ==
    /\ holded = << >>
    /\ fullPages = 0
    /\ file_paths = << >>
    /\ run = 1
    /\ pc = "extract"
    /\ page = 1
    /\ all_products = << >>
    /\ conway_products = [ok |-> FALSE, products |-> << >>]
    /\ conway_skus = << >>
    /\ file_skus = << >>
    /\ cursor = 1
    /\ scenario_results = NewScenarioResults
    /\ results = NewResults
    /\ stock_updates = << >>
    /\ stock_resets = << >>
    /\ puts = << >>
    /\ outcomes = << >>
    /\ listing_failed = FALSE
    /\ history = << >>
    /\ mode = "feed"
    /\ holded_lookup = << >>
    /\ file_products = << >>
    /\ product_cursor = 1
    /\ file_result = NewFileResult
    /\ NewWorkflow
    /\ trace = << >>
    /\ df \in DataFrames
    /\ extracted_products = << >>
    /\ validated_products = << >>
    /\ NoDropbox
    /\ NoDisk

\* The variables a FileProcessor leaves alone.
feedFrame == <<holded, fullPages, file_paths, run, history, mode, page, all_products,
               conway_products, listing_failed, conway_skus, file_skus, cursor,
               scenario_results, results, stock_updates, stock_resets, puts,
               outcomes, legacyVars, new_products_data, consolidated_data,
               processed_products, products_for_deletion, deletion_results,
               temp_stock_csv, holded_import_file, new_products_result, exit_code,
               integrityVars, trace, dropboxVars, diskVars>>

(* process_file: the products of the rows; process_inventory_file returns
   None when there are none. *)
ExtractProducts ==
    /\ pc = "extract"
    /\ extracted_products' = _extract_product_data(df)
    /\ pc' = IF extracted_products' = << >> THEN "validated" ELSE "validate"
    /\ UNCHANGED <<feedFrame, df, validated_products>>

(* process_inventory_file: validate_products on the products. *)
ValidateProducts ==
    /\ pc = "validate"
    /\ validated_products' = validate_products(extracted_products)
    /\ pc' = "validated"
    /\ UNCHANGED <<feedFrame, df, extracted_products>>

NextFeed ==
    \/ ExtractProducts
    \/ ValidateProducts

\* One call of process_inventory_file.
SpecFeed == InitFeed /\ [][NextFeed]_vars

----------------------------------------------------------------------------
(* DropboxHandler: change detection on the monitored folder. *)

\* The modified times a file of the folder may have.
MaxTime == 2

\* How many checks a behaviour makes.
MaxChecks == 2

\* ALLOWED_EXTENSIONS, default 'csv,xlsx,xls'
allowed_extensions ==
    {<<"c", "s", "v">>, <<"x", "l", "s", "x">>, <<"x", "l", "s">>}

\* MAX_FILE_SIZE_MB, default '10'
max_file_size_mb == 10

\* self.max_file_size, in bytes
max_file_size == max_file_size_mb * 1024 * 1024

\* entry.server_modified.isoformat()
isoformat(server_modified) == <<"iso", server_modified>>

\* file_name.lower().split('.')[-1]
Extension(file_name) ==
    LET lowered == lower(file_name)
        dots == {i \in DOMAIN lowered : lowered[i] = "."}
    IN  IF dots = {} THEN lowered
        ELSE SubSeq(lowered, (CHOOSE i \in dots : \A j \in dots : j <= i) + 1,
                    Len(lowered))

\* sub in chars
Contains(chars, sub) ==
    \E i \in 0..(Len(chars) - Len(sub)) : SubSeq(chars, i + 1, i + Len(sub)) = sub

\* The three conditions a listed file passes to count as a stock file.
Qualifies(entry) ==
    /\ Extension(entry.name) \in allowed_extensions
    /\ entry.size <= max_file_size
    /\ Contains(lower(entry.name), <<"s", "t", "o", "c", "k">>)

\* stock_files: the qualifying files, in the order of the listing.
StockFilesOf(entries) == SelectSeq(entries, Qualifies)

\* current_state[file_path] = modified_time, for every stock file.
CurrentStateOf(stock_files) ==
    PutAll(<< >>, [i \in DOMAIN stock_files |->
                      [k |-> stock_files[i].path_lower,
                       v |-> isoformat(stock_files[i].server_modified)]])

\* stock_files.sort(key=server_modified, reverse=True); stock_files[0]: the
\* sort is stable, so of the files with the latest time the first listed.
most_recent_file(stock_files) ==
    stock_files[CHOOSE i \in DOMAIN stock_files :
        \A j \in DOMAIN stock_files :
            \/ stock_files[j].server_modified < stock_files[i].server_modified
            \/ /\ stock_files[j].server_modified = stock_files[i].server_modified
               /\ j >= i]

\* Every file counts as new or updated.
IsNewOrUpdatedAlways(previous_state, file_path, modified_time) == TRUE

\* if (file_path not in previous_state or
\*     previous_state[file_path] != modified_time)
IsNewOrUpdated(previous_state, file_path, modified_time) ==
    \/ ~Has(previous_state, file_path)
    \/ Get(previous_state, file_path) # modified_time

\* _download_file: the local path, or None when the download raised.
_download_file(file_metadata, downloaded) ==
    IF downloaded THEN Some(<<"tmp", file_metadata.name>>) ELSE None

\* The two stock files of the folder and the files that do not qualify: no
\* 'stock' in the name, an extension that is not allowed, a file that is too
\* large, a name without extension.
FolderFiles ==
    { << [path_lower |-> "/in/stock_a.csv", size |-> 1,
          name |-> <<"S", "t", "o", "c", "k", "_", "a", ".", "c", "s", "v">>],
         [path_lower |-> "/in/stock_b.xlsx", size |-> max_file_size,
          name |-> <<"s", "t", "o", "c", "k", "_", "b", ".", "x", "l", "s", "x">>],
         other >> :
        other \in
          { [path_lower |-> "/in/notes.csv", size |-> 1,
             name |-> <<"n", "o", "t", "e", "s", ".", "c", "s", "v">>],
            [path_lower |-> "/in/stock.txt", size |-> 1,
             name |-> <<"s", "t", "o", "c", "k", ".", "t", "x", "t">>],
            [path_lower |-> "/in/stock_c.csv", size |-> max_file_size + 1,
             name |-> <<"s", "t", "o", "c", "k", "_", "c", ".", "c", "s", "v">>],
            [path_lower |-> "/in/stock", size |-> 1,
             name |-> <<"s", "t", "o", "c", "k">>] } }

\* The modified times a file of the folder may have, None when it is not
\* there.
Times == {None} \cup {Some(t) : t \in 1..MaxTime}

\* The modified times of the file of a slot of the folder: the file that is
\* no stock file is the most recent one, or not there.
TimesOf(i) == IF i = 3 THEN {None, Some(MaxTime)} ELSE Times

\* The folder: each file with its modified time.
Folders ==
    { [i \in DOMAIN files |->
          [path_lower |-> files[i].path_lower, name |-> files[i].name,
           size |-> files[i].size, server_modified |-> times[i]]] :
        files \in FolderFiles,
        times \in {f \in [1..3 -> Times] : \A i \in 1..3 : f[i] \in TimesOf(i)} }

\* result.entries: the files that are in the folder.
Entries(listing) ==
    LET present == SelectSeq(listing, LAMBDA f : f.server_modified # None)
    IN  [i \in DOMAIN present |->
            [present[i] EXCEPT !.server_modified = present[i].server_modified[1]]]

\* check_dropbox_trigger called again and again on a folder that changes.
InitDropbox ==
    /\ holded = << >>
    /\ fullPages = 0
    /\ file_paths = << >>
    /\ run = 1
    /\ pc = "check"
    /\ page = 1
    /\ all_products = << >>
    /\ conway_products = [ok |-> FALSE, products |-> << >>]
    /\ conway_skus = << >>
    /\ file_skus = << >>
    /\ cursor = 1
    /\ scenario_results = NewScenarioResults
    /\ results = NewResults
    /\ stock_updates = << >>
    /\ stock_resets = << >>
    /\ puts = << >>
    /\ outcomes = << >>
    /\ listing_failed = FALSE
    /\ history = << >>
    /\ mode = "dropbox"
    /\ holded_lookup = << >>
    /\ file_products = << >>
    /\ product_cursor = 1
    /\ file_result = NewFileResult
    /\ NewWorkflow
    /\ trace = << >>
    /\ NoFeed
    /\ folder \in Folders
    /\ dropbox_state = << >>
    /\ checks = << >>
    /\ folder_changed = FALSE
    /\ NoDisk

\* The variables a DropboxHandler leaves alone.
dropboxFrame == <<holded, fullPages, file_paths, run, history, mode, page, all_products,
                  conway_products, listing_failed, conway_skus, file_skus, cursor,
                  scenario_results, results, stock_updates, stock_resets, puts,
                  outcomes, legacyVars, new_products_data, consolidated_data,
                  processed_products, products_for_deletion, deletion_results,
                  temp_stock_csv, holded_import_file, new_products_result, exit_code,
                  integrityVars, trace, feedVars, diskVars, pc>>

\* What a check that ended before it had the listing leaves in the log:
\* test_connection failed, or the listing raised.
NoListing ==
    [listed |-> FALSE, loaded |-> FALSE,
     previous_state |-> << >>, offered |-> None, returned |-> << >>,
     saved |-> FALSE, unchanged |-> ~folder_changed]

(* check_dropbox_trigger: test_connection, then check_for_updated_files: load
   the state, list the folder, download the most recent stock file when it is
   new or updated, save the state of all stock files. *)
CheckDropboxTrigger ==
    /\ mode = "dropbox"
    /\ Len(checks) < MaxChecks
    /\ \/ /\ checks' = Append(checks, NoListing)
          /\ UNCHANGED dropbox_state
       \/ \E loaded \in {b \in BOOLEAN : dropbox_state = << >> => b},
             downloaded \in BOOLEAN, saved \in BOOLEAN :
            LET previous_state == IF loaded THEN dropbox_state ELSE << >>
                stock_files == StockFilesOf(Entries(folder))
                current_state == CurrentStateOf(stock_files)
                recent == most_recent_file(stock_files)
                due == /\ stock_files # << >>
                       /\ IsNewOrUpdated(previous_state, recent.path_lower,
                                         isoformat(recent.server_modified))
                local_path == IF due THEN _download_file(recent, downloaded) ELSE None
            IN  /\ (~due) => downloaded
                /\ checks' = Append(checks,
                        [listed |-> TRUE, loaded |-> loaded,
                         previous_state |-> previous_state,
                         offered |-> IF due THEN Some(recent) ELSE None,
                         returned |-> local_path,
                         saved |-> saved, unchanged |-> ~folder_changed])
                /\ dropbox_state' = IF saved THEN current_state ELSE dropbox_state
    /\ folder_changed' = FALSE
    /\ UNCHANGED <<dropboxFrame, folder>>

(* Somebody uploads, replaces or removes a file of the folder, between two
   checks. *)
ChangeFolder ==
    /\ mode = "dropbox"
    /\ checks # << >>
    /\ Len(checks) < MaxChecks
    /\ \E i \in DOMAIN folder, t \in Times :
        /\ t \in TimesOf(i)
        /\ folder[i].server_modified # t
        /\ folder' = [folder EXCEPT ![i].server_modified = t]
    /\ folder_changed' = TRUE
    /\ UNCHANGED <<dropboxFrame, dropbox_state, checks>>

NextDropbox ==
    \/ CheckDropboxTrigger
    \/ ChangeFolder

\* The checks of a scheduled job on a folder that others write to.
SpecDropbox == InitDropbox /\ [][NextDropbox]_vars

InitExecutors == Init \/ InitWorkflow

NextExecutors == Next \/ NextWorkflow

\* A reconciliation run, or a call of process_new_products: the two batches
\* of calls that change the catalog.
SpecExecutors == InitExecutors /\ [][NextExecutors]_vars

TypeOK ==
    /\ pc \in {"fetch", "index", "files", "scenario1", "scenario2", "scenario3",
               "report", "done", "lookup", "legacy_file", "legacy_products",
               "trigger", "construct", "escaped", "split", "consolidate", "csv",
               "transform", "delete", "images", "returned", "notify", "cleanup",
               "exited", "extract", "validate", "validated", "check"}
    /\ run \in 1..MaxRuns

----------------------------------------------------------------------------
(* Properties *)

Range(seq) == {seq[i] : i \in DOMAIN seq}

\* The requests of the current run for a SKU.
PutsFor(sku) == {i \in DOMAIN puts : puts[i].run = run /\ puts[i].sku = sku}

\* The branches the loops of the current run took for a SKU.
OutcomesFor(sku) == {i \in DOMAIN outcomes : outcomes[i].run = run /\ outcomes[i].sku = sku}

\* _apply_filtering_scenarios has returned.
ScenariosDone == pc = "report" \/ (pc = "done" /\ results.completed)

AfterScenario1 == pc \in {"scenario2", "scenario3"} \/ ScenariosDone

AfterScenario2 == pc = "scenario3" \/ ScenariosDone

ExpectedScenario(sku) ==
    IF sku \in Keys(conway_skus)
    THEN IF sku \in Keys(file_skus) THEN "update" ELSE "reset"
    ELSE "new"

\* C1: no SKU is handled by two scenarios, and once the three loops have run
\* every SKU of the index or of the feed has been handled by exactly one: Reset
\* if it is only in the index, Update if it is in both, New-candidate if it is
\* only in the feed.
C1_ExhaustivePartition ==
    /\ \A sku \in Keys(conway_skus) \cup Keys(file_skus) :
            Cardinality(OutcomesFor(sku)) <= 1
    /\ ScenariosDone =>
        \A sku \in Keys(conway_skus) \cup Keys(file_skus) :
            \E i \in OutcomesFor(sku) :
                /\ OutcomesFor(sku) = {i}
                /\ outcomes[i].scenario = ExpectedScenario(sku)

C1_Witness ==
    /\ pc = "done"
    /\ results.completed
    /\ \A scenario \in {"reset", "update", "new"} :
            \E i \in DOMAIN outcomes : outcomes[i].scenario = scenario

\* C2: when the previous run completed and all its stock requests succeeded,
\* the next run on the same files sends no stock request and counts no update
\* and no reset.
C2_RerunIdempotent ==
    ( /\ run > 1
      /\ history[run - 1].completed
      /\ \A i \in DOMAIN puts : puts[i].run = run - 1 => puts[i].ok )
    => /\ \A i \in DOMAIN puts : puts[i].run # run
       /\ scenario_results.stock_updates = 0
       /\ scenario_results.stock_resets = 0
       /\ results.stock_updates = 0
       /\ results.stock_resets = 0

C2_Witness ==
    /\ run = 2
    /\ pc = "done"
    /\ results.completed
    /\ history[1].completed
    /\ \A i \in DOMAIN puts : puts[i].ok
    /\ \E i \in DOMAIN puts : puts[i].run = 1 /\ puts[i].scenario = "reset"
    /\ \E i \in DOMAIN puts : puts[i].run = 1 /\ puts[i].scenario = "update"

\* The counter the service holds for variant key of product product_id.
ServiceCounter(products, product_id, key) ==
    LET product == CHOOSE p \in Range(products) : p.id = product_id
        variant == CHOOSE v \in Range(product.variants) : v.id = key
    IN  ServiceStock(product, variant)

\* C3: every stock request carries target stock minus current stock, under
\* the warehouse id and the variant id of the record, and when the service
\* accepts it a counter that held the current stock holds the target stock.
C3_DeltaCorrect ==
    [][ Len(puts') > Len(puts) =>
            LET sent == puts'[Len(puts')]
                record == Get(conway_skus, sent.sku)
            IN  /\ sent.delta = sent.new_stock - sent.current_stock
                /\ sent.warehouse = WarehouseId
                /\ sent.key = record.variant_id
                /\ sent.product_id = record.main_product_id
                /\ (sent.ok /\ ServiceCounter(holded, sent.product_id, sent.key)
                                    = sent.current_stock)
                    => ServiceCounter(holded', sent.product_id, sent.key)
                            = sent.new_stock ]_vars

C3_Witness ==
    /\ \E i \in DOMAIN puts : puts[i].ok /\ puts[i].delta > 0
    /\ \E i \in DOMAIN puts : puts[i].ok /\ puts[i].delta < 0

\* The dict of catalog records the run works on.
Records == IF mode = "legacy" THEN holded_lookup ELSE conway_skus

IsMainRecord(sku) == Has(Records, sku) /\ ~Get(Records, sku).is_variant

\* How many products of the files of the run carry the SKU.
Occurrences(sku) ==
    Cardinality(UNION {
        LET read == process_inventory_file(file_paths[f])
        IN  {<<f, j>> : j \in {k \in DOMAIN read.products : read.products[k].sku = sku}} :
        f \in DOMAIN file_paths })

\* C4: no stock request is sent for a record that is not a variant; such a
\* record is refused without a request, and the run still handles every SKU
\* (the three scenarios) or every product of the files (the lookup updater).
C4_VariantOnly ==
    /\ \A i \in DOMAIN puts : ~IsMainRecord(puts[i].sku)
    /\ \A i \in DOMAIN outcomes :
            IsMainRecord(outcomes[i].sku) => outcomes[i].decision \notin {"mutated", "failed"}
    /\ (mode = "inject" /\ ScenariosDone) =>
            \A sku \in Keys(conway_skus) \cup Keys(file_skus) :
                Cardinality(OutcomesFor(sku)) = 1
    /\ (mode = "legacy" /\ pc = "done" /\ holded_lookup # << >>) =>
            \A sku \in {"A", "B", "C"} :
                Cardinality(OutcomesFor(sku)) = Occurrences(sku)

C4_Witness ==
    /\ mode = "inject"
    /\ \E i \in DOMAIN outcomes, j \in DOMAIN outcomes :
        /\ i < j
        /\ IsMainRecord(outcomes[i].sku)
        /\ outcomes[i].decision = "refused"
        /\ outcomes[j].decision = "mutated"

\* C5: every entry of the index is a variant record keyed by the SKU of a
\* variant of a listed product and carries that product's id and that
\* variant's id; a product SKU that no variant has is not a key, and a product
\* without SKU-bearing variants has no entry.
C5_IndexOnlyVariants ==
    LET listed == Range(conway_products.products)
    IN  /\ \A i \in DOMAIN conway_skus :
            LET key == conway_skus[i].k
                entry == conway_skus[i].v
            IN  /\ entry.is_variant
                /\ key # ""
                /\ \E product \in listed :
                    \E variant \in Range(product.variants) :
                        /\ variant.sku = key
                        /\ entry.variant_data = variant
                        /\ entry.variant_id = variant.id
                        /\ entry.main_product_id = product.id
        /\ \A product \in listed :
            /\ (\A other \in listed : \A variant \in Range(other.variants) :
                    variant.sku # product.sku)
                => ~Has(conway_skus, product.sku)
            /\ (\A variant \in Range(product.variants) : variant.sku = "")
                => \A i \in DOMAIN conway_skus : conway_skus[i].v.id # product.id

C5_Witness ==
    /\ pc = "files"
    /\ Len(conway_skus) = 1
    /\ \E product \in Range(conway_products.products) :
        /\ product.variants # << >>
        /\ product.sku # ""
        /\ ~Has(conway_skus, product.sku)

\* C6: after scenario 1, every SKU of the index that is not in the feed and
\* has a current stock above 0 has exactly one stock request, with delta
\* 0 - current stock, and one with current stock 0 has none.
C6_ResetRule ==
    AfterScenario1 =>
        \A i \in DOMAIN conway_skus :
            LET sku == conway_skus[i].k
                current_stock == _get_current_stock(conway_skus[i].v)
            IN  (sku \notin Keys(file_skus) /\ current_stock # None) =>
                    /\ current_stock[1] > 0 =>
                        \E j \in PutsFor(sku) :
                            /\ PutsFor(sku) = {j}
                            /\ puts[j].delta = 0 - current_stock[1]
                            /\ puts[j].key = conway_skus[i].v.variant_id
                    /\ current_stock[1] = 0 => PutsFor(sku) = {}

C6_Witness ==
    /\ AfterScenario1
    /\ \E i \in DOMAIN puts : puts[i].scenario = "reset" /\ puts[i].ok
    /\ \E i \in DOMAIN outcomes :
            outcomes[i].scenario = "reset" /\ outcomes[i].decision = "noop"

\* C7: after scenario 2, every SKU of the feed that reports a stock and is in
\* the index has exactly one stock request, targeting the feed stock, when the
\* feed stock differs from the current stock, and none when they are equal.
C7_UpdateRule ==
    AfterScenario2 =>
        \A i \in DOMAIN file_skus :
            LET sku == file_skus[i].k
                feed_stock == file_skus[i].v.stock
                current_stock == IF Has(conway_skus, sku)
                                 THEN _get_current_stock(Get(conway_skus, sku))
                                 ELSE None
            IN  (feed_stock # None /\ current_stock # None) =>
                    /\ feed_stock # current_stock =>
                        \E j \in PutsFor(sku) :
                            /\ PutsFor(sku) = {j}
                            /\ puts[j].new_stock = feed_stock[1]
                            /\ puts[j].delta = feed_stock[1] - current_stock[1]
                    /\ feed_stock = current_stock => PutsFor(sku) = {}

C7_Witness ==
    /\ AfterScenario2
    /\ \E i \in DOMAIN puts : puts[i].scenario = "update" /\ puts[i].ok
    /\ \E i \in DOMAIN outcomes :
            outcomes[i].scenario = "update" /\ outcomes[i].decision = "noop"

\* C8: a SKU of the index whose feed record has no stock gets no stock
\* request.
C8_NoStockNoMutation ==
    \A i \in DOMAIN file_skus :
        (file_skus[i].v.stock = None /\ Has(conway_skus, file_skus[i].k))
            => PutsFor(file_skus[i].k) = {}

\* C9: a run whose files yield no feed record sends no stock request.
C9_NoFeedNoMutation ==
    (AfterScenario1 /\ file_skus = << >>) => puts = << >>

\* C10: once a page request of the listing has failed, the listing returns
\* nothing, the index is empty, and the run ends with one error, no file read
\* and no stock request.
C10_ListingFailureAborts ==
    listing_failed =>
        /\ conway_products = [ok |-> FALSE, products |-> << >>]
        /\ conway_skus = << >>
        /\ pc \in {"index", "done"}
        /\ file_skus = << >>
        /\ results.processed_files = 0
        /\ puts = << >>
        /\ pc = "done" =>
            /\ results.errors = <<[msg |-> "catalog_unavailable", sku |-> ""]>>
            /\ ~results.completed

C10_Witness ==
    /\ listing_failed
    /\ pc = "done"
    /\ page = 2
    /\ all_products # << >>

\* The DELETE requests sent so far, in order.
Deletes == SelectSeq(trace, LAMBDA e : e.ev = "delete")

\* The stock request the scenarios owe a SKU of the index: its current stock
\* is readable and differs from the feed's, or from 0 when the feed lacks it.
MutationExpected(sku) ==
    /\ Has(conway_skus, sku)
    /\ LET current_stock == _get_current_stock(Get(conway_skus, sku))
       IN  /\ current_stock # None
           /\ IF Has(file_skus, sku)
              THEN current_stock[1] # FeedStock(Get(file_skus, sku))
              ELSE current_stock[1] > 0

\* execute_automatic_product_deletions has returned.
DeletionsDone ==
    /\ pc \in {"images", "returned", "notify", "cleanup", "exited"}
    /\ DeletionDue(holded_import_file, products_for_deletion)

\* C11: a failed stock request or deletion does not end its batch: once the
\* scenarios have run, every SKU that needed a stock change has had exactly
\* one request whatever the answers to the others were, and once the
\* deletions have run, every scheduled entry has had exactly one DELETE, in
\* order; at every moment the failed requests of a SKU are as many as its
\* entries in errors, and the failed deletions as many as the entries in the
\* errors of deletion_results.
C11_PartialFailure ==
    /\ \A sku \in Keys(conway_skus) :
          /\ Cardinality({i \in PutsFor(sku) : ~puts[i].ok})
                = Cardinality({i \in DOMAIN scenario_results.errors :
                                  scenario_results.errors[i].sku = sku})
          /\ ScenariosDone =>
                Cardinality(PutsFor(sku)) = IF MutationExpected(sku) THEN 1 ELSE 0
    /\ Cardinality({i \in DOMAIN Deletes : ~Deletes[i].ok})
          = Len(deletion_results.errors)
    /\ deletion_results.failed_deletions = Len(deletion_results.errors)
    /\ DeletionsDone =>
          /\ Len(Deletes) = Len(products_for_deletion)
          /\ \A i \in DOMAIN Deletes : Deletes[i].id = products_for_deletion[i].product_id
          /\ deletion_results.successful_deletions + deletion_results.failed_deletions
                = deletion_results.total_scheduled

\* A run in which a stock request failed and a later SKU still got its request.
C11_Witness ==
    /\ ScenariosDone
    /\ \E i, j \in DOMAIN puts :
          /\ i < j
          /\ ~puts[i].ok
          /\ puts[j].sku # puts[i].sku
          /\ puts[j].ok

\* C12: delete_product_with_variants succeeds whenever the service served
\* the request, also with 404 for a product that is already gone, and fails
\* only when the request raised or the service refused it.
C12_DeleteIdempotent ==
    \A i \in DOMAIN Deletes :
        Deletes[i].ok <=> Deletes[i].status \in {200, 204, 404}

\* The flagged candidates of the call.
FlaggedCandidates == NewVariants(new_products_data)

\* _consolidate_variants_with_existing has returned.
Consolidated == pc = "csv" /\ FlaggedCandidates # << >>

\* The variants the catalog holds under a name.
ExistingVariants(name) == get_all_variants_by_product_name(name, TRUE, holded)

\* Every listing of the consolidation succeeded and no conversion raised.
ConsolidatedCleanly ==
    /\ \A i \in DOMAIN trace : trace[i].ev = "index" => trace[i].ok
    /\ \A i \in DOMAIN FlaggedCandidates :
          \A j \in DOMAIN ExistingVariants(FlaggedCandidates[i].name) :
              ~Malformed(ExistingVariants(FlaggedCandidates[i].name)[j])

\* C13: when all N candidates are new variants of one name that M existing
\* variants carry, the consolidated list has N + M records.
C13_ConsolidationSize ==
    ( /\ Consolidated
      /\ ConsolidatedCleanly
      /\ Len(FlaggedCandidates) = Len(new_products_data)
      /\ \A i \in DOMAIN FlaggedCandidates : FlaggedCandidates[i].name = FlaggedCandidates[1].name
      /\ ExistingVariants(FlaggedCandidates[1].name) # << >> )
    => Len(consolidated_data)
           = Len(FlaggedCandidates) + Len(ExistingVariants(FlaggedCandidates[1].name))

\* C14: products_for_deletion holds no parent product id twice.
C14_DistinctDeletions ==
    \A i, j \in DOMAIN products_for_deletion :
        products_for_deletion[i].product_id = products_for_deletion[j].product_id
            => i = j

\* The position of the first event of a kind that succeeded, 0 if none.
FirstOk(ev) ==
    IF \E i \in DOMAIN trace : trace[i].ev = ev /\ trace[i].ok
    THEN CHOOSE i \in DOMAIN trace :
            /\ trace[i].ev = ev /\ trace[i].ok
            /\ \A j \in 1..(i - 1) : ~(trace[j].ev = ev /\ trace[j].ok)
    ELSE 0

\* C15: every DELETE comes after the last listing of the consolidation, after
\* the stock CSV was written and after the transform gave the import file, in
\* this order; when the CSV or the transform failed there is no DELETE.
C15_DeleteAfterTransform ==
    /\ \A i \in DOMAIN trace :
          trace[i].ev = "delete" =>
              /\ FirstOk("csv") > 0
              /\ FirstOk("csv") < FirstOk("transform")
              /\ FirstOk("transform") < i
              /\ \A j \in DOMAIN trace : trace[j].ev = "index" => j < FirstOk("csv")
              /\ temp_stock_csv # None
              /\ holded_import_file # None
    /\ (\E i \in DOMAIN trace : trace[i].ev \in {"csv", "transform"} /\ ~trace[i].ok)
          => Deletes = << >>

\* A call that returned after it consolidated existing variants with the
\* candidates and deleted a scheduled product.
C15_Witness ==
    /\ pc = "returned"
    /\ \E i \in DOMAIN Deletes : Deletes[i].ok
    /\ products_for_deletion # << >>
    /\ Len(consolidated_data) > Len(new_products_data)

\* The entries of the index of the run whose name is a candidate's, by
\* strip and lower.
NameMatches(candidate) ==
    {i \in DOMAIN conway_skus :
        NormalizedName(conway_skus[i].v.name) = NormalizedName(candidate.name)}

\* process_new_products has returned a result to main.
WorkflowReturned == pc \in {"notify", "cleanup", "exited"} /\ new_products_result # None

\* C16: once the workflow has returned, every candidate whose name is the
\* name of a variant of the catalog is a new variant and the parent of that
\* variant is scheduled for deletion, and every other candidate is in the
\* list as it came.
C16_ClassifiedByName ==
    WorkflowReturned =>
        \A c \in DOMAIN new_products_data :
            LET candidate == new_products_data[c]
            IN  IF NameMatches(candidate) # {}
                THEN \E i \in NameMatches(candidate) :
                        \E d \in DOMAIN products_for_deletion :
                            products_for_deletion[d].product_id
                                = conway_skus[i].v.main_product_id
                ELSE \E r \in DOMAIN consolidated_data : consolidated_data[r] = candidate

\* The stock the catalog reports for a variant.
ReportedStock(product, variant) ==
    IF variant.stock # None THEN variant.stock ELSE product.stock

\* C17: after the consolidation and before any deletion, every variant of
\* every product scheduled for deletion has a record in the consolidated list
\* with its SKU and the stock the catalog reports for it.
C17_NoVariantLost ==
    pc = "csv" =>
        \A d \in DOMAIN products_for_deletion :
            \A p \in DOMAIN holded :
                holded[p].id = products_for_deletion[d].product_id =>
                    \A v \in DOMAIN holded[p].variants :
                        \E r \in DOMAIN consolidated_data :
                            /\ consolidated_data[r].from_holded
                            /\ consolidated_data[r].sku = holded[p].variants[v].sku
                            /\ consolidated_data[r].stock
                                  = ReportedStock(holded[p], holded[p].variants[v])

\* The listings of the catalog made to build an index.
IndexFetches == SelectSeq(trace, LAMBDA e : e.ev = "index")

\* C18: the catalog is listed for an index at most once, by the run itself,
\* never by the consolidation.
C18_SingleSnapshot ==
    /\ Len(IndexFetches) <= 1
    /\ \A i \in DOMAIN IndexFetches : IndexFetches[i].id = "run"

\* The notification attempts so far.
Notifications == SelectSeq(trace, LAMBDA e : e.ev = "notify")

\* main was handed a file by the trigger.
Triggered == mode = "main" /\ \E i \in DOMAIN trace : trace[i].ev = "trigger" /\ trace[i].ok

\* An exception left update_inventory_robust.
Escaped == \E i \in DOMAIN trace : trace[i].ev = "exception"

\* C19: a triggered run of main never makes a second notification attempt,
\* and when it has ended it has made exactly one: the error notification if
\* an exception left the run, the update notification otherwise.
C19_OneNotification ==
    Triggered =>
        /\ Len(Notifications) <= 1
        /\ pc = "exited" =>
              /\ Len(Notifications) = 1
              /\ Notifications[1].id = IF Escaped THEN "error" ELSE "update"

\* A triggered run that ended with its one update notification although the
\* index was unavailable, a stock request failed or the workflow gave no
\* result.
C19_Witness ==
    /\ Triggered
    /\ pc = "exited"
    /\ Len(Notifications) = 1
    /\ Notifications[1].id = "update"
    /\ results.errors # << >>
    /\ new_products_data # << >>
    /\ new_products_result = None

\* C20: a run of main that has ended has exit code 1 if an exception left the
\* run and 0 otherwise, whatever errors it collected; with exit code 1 the
\* last thing it did was the attempt of the error notification, sent or not.
C20_ExitCodes ==
    (mode = "main" /\ pc = "exited") =>
        /\ exit_code = Some(IF Escaped THEN 1 ELSE 0)
        /\ exit_code = Some(1) =>
              /\ trace[Len(trace)].ev = "notify"
              /\ trace[Len(trace)].id = "error"

\* A run that exits with 1 although its error notification was not sent.
C20_Witness ==
    /\ mode = "main"
    /\ pc = "exited"
    /\ exit_code = Some(1)
    /\ ~trace[Len(trace)].ok

\* The SKUs that got a stock request of a scenario in the current run.
MutatedSkus(scenario) ==
    {puts[i].sku : i \in {j \in DOMAIN puts :
                              puts[j].run = run /\ puts[j].scenario = scenario}}

StockDecisions(scenario) ==
    { [sku |-> puts[i].sku, delta |-> puts[i].delta, ok |-> puts[i].ok] :
        i \in {j \in DOMAIN puts : puts[j].run = run /\ puts[j].scenario = scenario} }

\* The answer the service gave to the request for a SKU.
Answer(sku) == \E i \in PutsFor(sku) : puts[i].ok

\* The readable current stock of the SKUs of the index, as a set of SKUs.
Readable == {sku \in Keys(conway_skus) : _get_current_stock(Get(conway_skus, sku)) # None}

CurrentStock(sku) == _get_current_stock(Get(conway_skus, sku))[1]

\* C23: the decisions of a call are a function of the index and the feed as
\* maps and of the answers of the service, whatever the order in which the
\* two dicts hand out their items: the SKUs reset, the SKUs updated and their
\* differences, the candidates, and the counts of the report.  Two calls on
\* the same maps with the same answers therefore decide the same.
C23_Deterministic ==
    ScenariosDone =>
        /\ StockDecisions("reset")
              = { [sku |-> sku, delta |-> 0 - CurrentStock(sku), ok |-> Answer(sku)] :
                    sku \in {k \in Readable \ Keys(file_skus) : CurrentStock(k) > 0} }
        /\ StockDecisions("update")
              = { [sku |-> sku,
                   delta |-> FeedStock(Get(file_skus, sku)) - CurrentStock(sku),
                   ok |-> Answer(sku)] :
                    sku \in {k \in Readable \cap Keys(file_skus) :
                                CurrentStock(k) # FeedStock(Get(file_skus, k))} }
        /\ Range(scenario_results.new_products_for_creation)
              = { new_product_info(sku, Get(file_skus, sku)) :
                    sku \in Keys(file_skus) \ Keys(conway_skus) }
        /\ Len(scenario_results.new_products_for_creation)
              = Cardinality(Keys(file_skus) \ Keys(conway_skus))
        /\ scenario_results.stock_resets
              = Cardinality({d \in StockDecisions("reset") : d.ok})
        /\ scenario_results.stock_updates
              = Cardinality({d \in StockDecisions("update") : d.ok})

\* A call that ended after it reset a SKU, updated another and tracked a
\* candidate, on dicts that hand out their SKUs against the order A, B, C.
C23_Witness ==
    /\ ScenariosDone
    /\ StockDecisions("reset") # {}
    /\ StockDecisions("update") # {}
    /\ scenario_results.new_products_for_creation # << >>
    /\ \/ Len(conway_skus) = 2 /\ conway_skus[1].k = "B"
       \/ Len(file_skus) >= 2 /\ file_skus[1].k = "C"

\* The rows of the file that the loop reads the stock cell of: the others
\* have a model year and no row before them is without one.
RowsRead == {i \in DOMAIN df : ~df[i].year \/ \E j \in 1..(i - 1) : ~df[j].year}

\* The rows read whose stock cell is the sentinel ">10".
SentinelRows ==
    {i \in RowsRead : df[i].stock # NaN /\ strip(df[i].stock) = <<">", "1", "0">>}

\* C24: a row whose stock cell is ">10" gives a product with the stock 10,
\* which validation keeps, and every stock that validation keeps is an
\* integer that is not below 0.
C24_StockNormalized ==
    /\ pc \in {"validate", "validated"} =>
          \A i \in SentinelRows :
              \E j \in DOMAIN extracted_products :
                  /\ extracted_products[j].sku = df[i].sku
                  /\ extracted_products[j].stock = Some(10)
    /\ (pc = "validated" /\ extracted_products # << >>) =>
          \A i \in SentinelRows :
              \E j \in DOMAIN validated_products :
                  /\ validated_products[j].sku = df[i].sku
                  /\ validated_products[j].stock = Some(10)
    /\ \A j \in DOMAIN validated_products :
          validated_products[j].stock # None => validated_products[j].stock[1] \in Nat

\* A file with the sentinel between blanks and with a negative stock, read
\* and validated: the first row reports 10, the second lost its stock.
C24_Witness ==
    /\ pc = "validated"
    /\ Len(df) = 2
    /\ df[2].year
    /\ df[1].stock = <<" ", ">", "1", "0", " ">>
    /\ df[2].stock = <<"-", "1">>
    /\ df[2].price
    /\ Len(validated_products) = 2
    /\ validated_products[1].stock = Some(10)
    /\ validated_products[2].stock = None

RECURSIVE CategoryProductsUpTo(_)
\* The products of the category on the pages 1..p of the service.
CategoryProductsUpTo(p) ==
    IF p = 0 THEN << >>
    ELSE CategoryProductsUpTo(p - 1)
             \o SelectSeq(ListPage(holded, fullPages, p), LAMBDA product : product.conway)

\* The listing has returned.
Listed == pc = "index"

\* What holds of the listing at every moment: the pages requested are the
\* pages 1..page (1..page - 1 while the next request is due), every page
\* before the last one requested was full, and a listing that returned a
\* list stopped at a page that is empty or short and returns the category
\* products of every page it requested.
ListingInvariant ==
    /\ page \in 1..(MaxFullPages + 2)
    /\ \A p \in 1..(page - 1) : Len(ListPage(holded, fullPages, p)) = PerPage
    /\ ~Listed => all_products = CategoryProductsUpTo(page - 1)
    /\ (Listed /\ conway_products.ok) =>
          /\ Len(ListPage(holded, fullPages, page)) < PerPage
          /\ conway_products.products = CategoryProductsUpTo(page)
    /\ (Listed /\ ~conway_products.ok) => listing_failed

\* C25: the listing starts at page 1, requests consecutive pages of PerPage
\* products, none after a page that is short or empty, returns on success
\* every category product of the pages it requested, and it returns.
C25_ListingTerminates == []ListingInvariant /\ <>Listed

\* A listing that returned the products of a full page and of a short one.
C25_Witness ==
    /\ Listed
    /\ conway_products.ok
    /\ page = 2
    /\ Len(ListPage(holded, fullPages, 1)) = PerPage
    /\ Len(conway_products.products) = 2

\* The stock the catalog holds now for the variant of an entry of the index.
CatalogStock(entry) == ServiceCounter(holded, entry.main_product_id, entry.variant_id)

\* The run has applied its scenarios and every request it sent succeeded.
RunSucceeded == ScenariosDone /\ \A i \in DOMAIN puts : puts[i].ok

\* No request has left a stock below 0.
NeverBelowZero ==
    \A i \in DOMAIN puts :
        puts[i].ok => /\ puts[i].new_stock >= 0
                      /\ CatalogStock(Get(conway_skus, puts[i].sku)) >= 0

Succeeded(scenario) ==
    {i \in DOMAIN puts : puts[i].run = run /\ puts[i].scenario = scenario /\ puts[i].ok}

\* C27: when process_robust_inventory_update returns its report, stock_resets
\* and stock_updates count the accepted reset and update requests,
\* summary.total_stock_updates is their sum and the length of the summary
\* list, a SKU whose request failed has no summary entry, skipped_not_in_holded
\* is the length of new_products_for_creation, and no SKU got two requests.
C27_ReportConsistent ==
    (pc = "done" /\ results.completed) =>
        /\ results.stock_resets = Cardinality(Succeeded("reset"))
        /\ results.stock_updates = Cardinality(Succeeded("update"))
        /\ results.summary.total_stock_updates
              = results.stock_resets + results.stock_updates
        /\ Len(results.summary.stock_updates) = results.summary.total_stock_updates
        /\ {entry.sku : entry \in Range(results.summary.stock_updates)}
              = {puts[i].sku : i \in Succeeded("reset") \cup Succeeded("update")}
        /\ results.skipped_not_in_holded = Len(results.new_products_for_creation)
        /\ \A sku \in Keys(conway_skus) \cup Keys(file_skus) :
              Cardinality(PutsFor(sku)) <= 1

\* A finished run with an accepted update, a reset that failed and a
\* candidate for creation.
C27_Witness ==
    /\ pc = "done" /\ results.completed
    /\ Succeeded("update") # {}
    /\ \E i \in DOMAIN puts : puts[i].scenario = "reset" /\ ~puts[i].ok
    /\ results.skipped_not_in_holded > 0

\* The files of the folder that are stock files: the first two files of the
\* folder match the three conditions, the third does not.
StockFileSlots == {i \in {1, 2} : folder[i].server_modified # None}

\* The check found the file of the slot, which no stock file of the folder is
\* more recent than, and the state it read did not have it with that time.
ReturnedFrom(check, i) ==
    LET file_path == folder[i].path_lower
        modified == folder[i].server_modified[1]
    IN  /\ check.offered[1].path_lower = file_path
        /\ check.offered[1].server_modified = modified
        /\ check.returned = Some(<<"tmp", folder[i].name>>)
        /\ \A j \in StockFileSlots : folder[j].server_modified[1] <= modified
        /\ \/ ~Has(check.previous_state, file_path)
           \/ Get(check.previous_state, file_path) # isoformat(modified)

\* What the last check returned, the folder being as that check saw it.
OneFileIfChanged ==
    (checks # << >> /\ ~folder_changed) =>
        LET check == checks[Len(checks)]
        IN  check.returned # None => \E i \in StockFileSlots : ReturnedFrom(check, i)

C29_SeenOnlyIfDownloaded ==
    checks # << >> =>
        LET check == checks[Len(checks)]
        IN  (check.offered # None /\ check.returned = None) =>
                \/ ~Has(dropbox_state, check.offered[1].path_lower)
                \/ Get(dropbox_state, check.offered[1].path_lower)
                      # isoformat(check.offered[1].server_modified)

\* Every attachment path handed to the notifier was on the disk when the
\* message was built.
AttachmentsExist ==
    attachments # None => attachments[1].handed \subseteq attachments[1].found

\* A step that removes a file of the run from the disk.
RemovesFile == \E file \in disk : file \notin disk'

\* The update notification has been attempted.
NotifyAttempted == \E i \in DOMAIN trace : trace[i].ev = "notify"

\* C30: the downloaded file and the files of the new products workflow are
\* removed only by the cleanup of main, after the notification was attempted,
\* so every attachment path handed to the notifier exists when the message is
\* built; no step of the workflow removes a file when it returns.
C30_CleanupAfterNotify ==
    /\ []AttachmentsExist
    /\ [][RemovesFile => (pc = "cleanup" /\ NotifyAttempted)]_vars

\* A run of main that attached the import file to the notification and then
\* removed it, the stock CSV and the downloaded file.
C30_Witness ==
    /\ mode = "main"
    /\ pc = "exited"
    /\ attachments # None
    /\ attachments[1].handed = {"conway_products_holded_import.csv"}
    /\ temp_stock_csv # None
    /\ disk = {}

\* The SKUs of the rows of the stock CSV.
InputSkus == {consolidated_data[i].sku : i \in DOMAIN consolidated_data}

\* The transform has given an import file.
Transformed == holded_import_file # None

\* C21: once the transform has given an import file, the SKUs recorded in
\* data_integrity_issues are exactly the SKUs of the stock CSV that no row of
\* the import file carries, each with a reason, whether the CSV holds a SKU
\* once or several times; and a call that got an import file returns a
\* result, which carries the issues.
C21_IntegrityTracking ==
    Transformed =>
        /\ {issue.sku : issue \in data_integrity_issues}
              = InputSkus \ Range(import_skus)
        /\ \A issue \in data_integrity_issues : issue.reason # ""
        /\ pc \in {"delete", "images", "returned"}
        /\ pc = "returned" =>
              /\ new_products_result # None
              /\ new_products_result[1].data_integrity_issues = data_integrity_issues

\* A call that returned a result with an import file, although one SKU of the
\* stock CSV is missing from it and another is in the CSV twice.
C21_Witness ==
    /\ pc = "returned"
    /\ new_products_result # None
    /\ data_integrity_issues # {}
    /\ import_skus # << >>
    /\ Cardinality(InputSkus) < Len(consolidated_data)

====
